---- MODULE Spec2Model ----
(***************************************************************************)
(* Model of the mind-map session store (store/sessionsStore.ts), the       *)
(* generation client and tagged-response parser (lib/llm.ts) and the       *)
(* submit handlers of the node components (components/MindNode.tsx,        *)
(* app/node/[id]/page.tsx) and the POST handler of /api/llm                *)
(* (app/api/llm/route.ts).                                                 *)
(*                                                                         *)
(* A response text is modelled as the sequence of its top-level elements.  *)
(* An element <tag>body</tag> is the record                                *)
(*   [tag, title, content, subtitle, rest]                                 *)
(* where title/content/subtitle are the bodies of the sub-tags of the same *)
(* name (Nil when the sub-tag is absent) and rest is the remaining text of *)
(* the body.  Tag names are lower-cased (the regular expressions are       *)
(* case-insensitive) and all bodies are trimmed.                           *)
(***************************************************************************)
EXTENDS Integers, Sequences, FiniteSets, TLC

\* JavaScript's undefined / null for an optional string field.
Nil == "<undefined>"

----------------------------------------------------------------------------
\* Bounds of the model.

\* Largest value the clock Date.now() takes.
MaxClock == 2
\* Largest number of sessions in the session list.
MaxSessions == 2
\* Largest number of generation requests issued in one behaviour.
MaxRequests == 2
\* Largest number of direct edits of a graph (addDemoNode, addPreNode,
\* addInfoNode, setNodes, setEdges, a submit that issues no request).
MaxEdits == 2
\* Largest number of requests, direct edits and created sessions together.
MaxOps == 3
\* Only nodes whose id has at most this many characters are expanded by a
\* submit (expandAnswerPath) and by expandSelectedNodeWithGemini.
MaxIdLen == 11

----------------------------------------------------------------------------
\* Program constants.

branchOffsetX == -240
branchSpacingX == 360
branchDy == 280
infoOffsetX == 400
infoSpacingY == 100
infoOffsetY == -50
NODE_WIDTH == 320
NODE_HEIGHT == 120
EXPANSION_PADDING == 48
\* .slice(0, 6) of parseTagBranches and .slice(0, 4) of parseClarifiesFromText
MaxBranches == 6
MaxClarifies == 4
\* position of a freshly created root, and the fallback source position
RootX == 250
RootY == 120

----------------------------------------------------------------------------
\* Generic helpers.

Min(S) == CHOOSE m \in S : \A k \in S : m <= k
Max(S) == CHOOSE m \in S : \A k \in S : m >= k
Range(s) == {s[i] : i \in 1..Len(s)}
Take(s, n) == SubSeq(s, 1, IF Len(s) < n THEN Len(s) ELSE n)
\* Math.ceil(n / 2)
CeilHalf(n) == (n + 1) \div 2
\* a ?? b
Or(a, b) == IF a # Nil THEN a ELSE b

----------------------------------------------------------------------------
\* Response texts.

El(tag, title, content) ==
  [tag |-> tag, title |-> title, content |-> content, subtitle |-> Nil, rest |-> ""]
Plain(tag, body) ==
  [tag |-> tag, title |-> Nil, content |-> Nil, subtitle |-> Nil, rest |-> body]

\* match[1].trim(): the body of the element as text
Raw(e) ==
  (IF e.title # Nil THEN "<title>" \o e.title \o "</title>" ELSE "")
  \o (IF e.content # Nil THEN "<content>" \o e.content \o "</content>" ELSE "")
  \o (IF e.subtitle # Nil THEN "<subtitle>" \o e.subtitle \o "</subtitle>" ELSE "")
  \o e.rest
\* raw.replace(/<[^>]+>/g, '').trim()
Stripped(e) ==
  (IF e.title # Nil THEN e.title ELSE "")
  \o (IF e.content # Nil THEN e.content ELSE "")
  \o (IF e.subtitle # Nil THEN e.subtitle ELSE "")
  \o e.rest
\* the whole line of the element in the text
Outer(e) ==
  IF e.tag = "text" THEN e.rest ELSE "<" \o e.tag \o ">" \o Raw(e) \o "</" \o e.tag \o ">"

\* Variant of BranchLabel: without <title> the <content> or <subtitle> body
\* is the label, and an empty <title> is taken as it is.
BranchLabelContentFirst(e) ==
  IF e.title # Nil THEN e.title
  ELSE IF e.content # Nil THEN e.content
  ELSE IF e.subtitle # Nil THEN e.subtitle
  ELSE e.rest
BranchLabel(e) ==
  LET t == IF e.title # Nil THEN e.title ELSE Stripped(e)
  IN  IF t # "" THEN t ELSE Raw(e)
BranchContent(e) == IF e.content # Nil THEN e.content ELSE e.subtitle

\* Variant of UniqueByLabel: repeated labels are kept.
UniqueByLabelOff(s) == s
\* results.filter(first occurrence of its label)
UniqueByLabel(s) ==
  LET idx == [i \in 1..Len(s) |-> i]
      first == SelectSeq(idx, LAMBDA i : \A j \in 1..(i - 1) : s[j].label # s[i].label)
  IN  [k \in 1..Len(first) |-> s[first[k]]]

parseTagBranches(text, tag, idPrefix) ==
  LET matches == SelectSeq(text, LAMBDA e : e.tag = tag /\ Raw(e) # "")
      results == [i \in 1..Len(matches) |->
                    [label |-> BranchLabel(matches[i]), content |-> BranchContent(matches[i])]]
      unique == Take(UniqueByLabel(results), MaxBranches)
  IN  [i \in 1..Len(unique) |->
         [id |-> idPrefix \o "-" \o ToString(i), label |-> unique[i].label,
          content |-> unique[i].content]]

parseStepsFromText(text, nid) == parseTagBranches(text, "step", nid \o "-step")
parseFinalAnswersFromText(text, nid) == parseTagBranches(text, "answer", nid \o "-ans")
\* Variant of parseBranchesFromText: <answer> read as steps gets step ids.
parseBranchesFromTextStepIds(text, nid) ==
  LET fromStep == parseStepsFromText(text, nid)
  IN  IF Len(fromStep) > 0 THEN fromStep ELSE parseTagBranches(text, "answer", nid \o "-step")
parseBranchesFromText(text, nid) ==
  LET fromStep == parseStepsFromText(text, nid)
  IN  IF Len(fromStep) > 0 THEN fromStep ELSE parseTagBranches(text, "answer", nid \o "-gen")

parseClarifiesFromText(text, nid) ==
  LET matches == SelectSeq(text, LAMBDA e : e.tag = "clarify" /\ Raw(e) # "")
      labels == [i \in 1..Len(matches) |-> [label |-> Raw(matches[i])]]
      unique == Take(UniqueByLabel(labels), MaxClarifies)
  IN  [i \in 1..Len(unique) |->
         [id |-> nid \o "-clar-" \o ToString(i), label |-> unique[i].label, content |-> Nil]]

\* the first <root> element of the text, if any
RootMatch(text) == SelectSeq(text, LAMBDA e : e.tag = "root")
parseRootFromText(text) ==
  LET m == RootMatch(text)
  IN  IF Len(m) > 0 /\ Raw(m[1]) # "" THEN Raw(m[1]) ELSE Nil
parseClarifyRootFromText(text) ==
  LET m == RootMatch(text)
  IN  IF Len(m) = 0 \/ Raw(m[1]) = "" THEN [title |-> "", content |-> Nil]
      ELSE LET t == IF m[1].title # Nil THEN m[1].title ELSE Stripped(m[1])
           IN  [title |-> IF t # "" THEN t ELSE "Root", content |-> BranchContent(m[1])]

\* (text || '').split(/\r?\n/).map(trim).find(non-empty)
FirstLine(text) ==
  LET lines == SelectSeq(text, LAMBDA e : Outer(e) # "")
  IN  IF Len(lines) > 0 THEN Outer(lines[1]) ELSE Nil

\* Variant of ParseExpansion: <answer> elements are never read as steps.
ParseExpansionNoLegacy(text, nid) ==
  [branches |-> parseStepsFromText(text, nid),
   answers |-> parseFinalAnswersFromText(text, nid),
   clarifies |-> parseClarifiesFromText(text, nid)]
\* The common part of the four expansion helpers: steps, answers (with the
\* legacy reinterpretation of <answer> as steps) and clarifies.
ParseExpansion(text, nid) ==
  LET steps == parseStepsFromText(text, nid)
      ans == parseFinalAnswersFromText(text, nid)
      legacy == Len(steps) = 0 /\ Len(ans) > 0
  IN  [branches |-> IF legacy THEN parseBranchesFromText(text, nid) ELSE steps,
       answers |-> IF legacy THEN <<>> ELSE ans,
       clarifies |-> parseClarifiesFromText(text, nid)]

\* Variant of initializeNodeWithGemini: the title falls back to the first
\* answer before the first step.
initializeNodeWithGeminiAnswerFirst(text, nodeId) ==
  LET nid == IF nodeId # "" THEN nodeId ELSE "node"
      p == ParseExpansion(text, nid)
      rootParsed == parseClarifyRootFromText(text)
      fallbackTitle ==
        IF parseRootFromText(text) # Nil THEN parseRootFromText(text)
        ELSE IF Len(p.answers) > 0 /\ p.answers[1].label # "" THEN p.answers[1].label
        ELSE IF Len(p.branches) > 0 /\ p.branches[1].label # "" THEN p.branches[1].label
        ELSE IF FirstLine(text) # Nil THEN FirstLine(text)
        ELSE "New Node"
  IN  [title |-> IF rootParsed.title # "" THEN rootParsed.title ELSE fallbackTitle,
       content |-> rootParsed.content,
       branches |-> p.branches, answers |-> p.answers, clarifies |-> p.clarifies]
initializeNodeWithGemini(text, nodeId) ==
  LET nid == IF nodeId # "" THEN nodeId ELSE "node"
      p == ParseExpansion(text, nid)
      rootParsed == parseClarifyRootFromText(text)
      fallbackTitle ==
        IF parseRootFromText(text) # Nil THEN parseRootFromText(text)
        ELSE IF Len(p.branches) > 0 /\ p.branches[1].label # "" THEN p.branches[1].label
        ELSE IF Len(p.answers) > 0 /\ p.answers[1].label # "" THEN p.answers[1].label
        ELSE IF FirstLine(text) # Nil THEN FirstLine(text)
        ELSE "New Node"
  IN  [title |-> IF rootParsed.title # "" THEN rootParsed.title ELSE fallbackTitle,
       content |-> rootParsed.content,
       branches |-> p.branches, answers |-> p.answers, clarifies |-> p.clarifies]

expandAnswerPathWithGemini(text, nodeId) ==
  ParseExpansion(text, IF nodeId # "" THEN nodeId ELSE "node")

expandNodeWithGemini(text, nodeId) ==
  ParseExpansion(text, IF nodeId # "" THEN nodeId ELSE "node")

repromptRootWithClarifyLlm(text, rootTitle, rootContent) ==
  LET rootParsed == parseClarifyRootFromText(text)
      p == ParseExpansion(text, "root")
  IN  [title |-> IF rootParsed.title # "" THEN rootParsed.title ELSE rootTitle,
       content |-> Or(rootParsed.content, rootContent),
       branches |-> p.branches, answers |-> p.answers, clarifies |-> p.clarifies]

\* Variant of getMockResponse: the init text has two steps and one clarify.
getMockResponseShort(promptType) ==
  CASE promptType = "init" ->
         << El("root", "Get started", "Refined from your idea"),
            El("step", "First step", "First step description."),
            El("step", "Second step", "Second step description."),
            El("answer", "Direct answer", "When confident, a final answer option."),
            Plain("clarify", "Any constraints or preferences?") >>
    [] OTHER ->
         << El("step", "Branch A", "Option A."),
            El("step", "Branch B", "Option B."),
            El("answer", "Suggested answer", "When confident."),
            Plain("clarify", "Would you like more branches or details?") >>

\* The canned texts of mock mode.
getMockResponse(promptType) ==
  CASE promptType = "init" ->
         << El("root", "Get started", "Refined from your idea"),
            El("step", "First step", "Initial step description."),
            El("step", "Second step", "Second step description."),
            El("step", "Third step", "Third step description."),
            El("answer", "Direct answer", "When confident, a final answer option."),
            Plain("clarify", "Any constraints or preferences?"),
            Plain("clarify", "What's your timeline?") >>
    [] promptType = "clarify" ->
         << El("root", "Refined topic", "With your context applied"),
            El("step", "Option A", "Description for option A."),
            El("step", "Option B", "Description for option B."),
            El("answer", "Recommended", "Best fit when sure."),
            Plain("clarify", "Need more detail?") >>
    [] promptType = "answerPath" ->
         << El("step", "Next step A", "Content for first option."),
            El("step", "Next step B", "Content for second option."),
            El("answer", "Final answer", "Confident conclusion when applicable."),
            Plain("clarify", "Need more detail?") >>
    [] OTHER ->
         << El("step", "Branch A", "Option A."),
            El("step", "Branch B", "Option B."),
            El("answer", "Suggested answer", "When confident."),
            Plain("clarify", "Would you like more branches or details?") >>

----------------------------------------------------------------------------
\* Graph nodes and edges.

MkNode(id, nodeType, label, content, x, y) ==
  [id |-> id, nodeType |-> nodeType, label |-> label, title |-> Nil, content |-> content,
   details |-> Nil, inputValue |-> Nil, x |-> x, y |-> y]
\* The root that addDemoNode/addPreNode/addInfoNode insert: no nodeType.
PlainRoot == MkNode("root", Nil, "Root", Nil, RootX, RootY)
\* Result of Array.find when nothing matches.
NoNode == MkNode(Nil, Nil, Nil, Nil, RootX, RootY)
MkEdge(source, target, linkType) ==
  [id |-> "e-" \o source \o "-" \o target, source |-> source, target |-> target,
   linkType |-> linkType]

EmptyMap == [nodes |-> <<>>, edges |-> <<>>]
Ids(nodes) == {nodes[i].id : i \in 1..Len(nodes)}
\* nodes.find((n) => n.id === id)
FindNode(nodes, id) ==
  LET m == SelectSeq(nodes, LAMBDA n : n.id = id)
  IN  IF Len(m) > 0 THEN m[1] ELSE NoNode
HasNode(nodes, id) == \E i \in 1..Len(nodes) : nodes[i].id = id

----------------------------------------------------------------------------
\* Graph Layout Engine.

\* Variant of RowNodes: every row starts at slot 0.
RowNodesFromZero(items, nodeType, sx, sy, first) ==
  [i \in 1..Len(items) |->
     MkNode(items[i].id, nodeType, items[i].label, items[i].content,
            sx + branchOffsetX + (i - 1) * branchSpacingX, sy + branchDy)]
\* Step and answer nodes: one row below the source, starting at slot `first`.
RowNodes(items, nodeType, sx, sy, first) ==
  [i \in 1..Len(items) |->
     MkNode(items[i].id, nodeType, items[i].label, items[i].content,
            sx + branchOffsetX + (first + i - 1) * branchSpacingX, sy + branchDy)]
\* Variant of InfoNodes: the left column holds floor(n/2) nodes.
InfoNodesFloor(items, sx, sy) ==
  LET mid == Len(items) \div 2
  IN  [i \in 1..Len(items) |->
         LET idx == i - 1
             isLeft == idx < mid
             rowIdx == IF isLeft THEN idx ELSE idx - mid
         IN  MkNode(items[i].id, "info", items[i].label, Nil,
                    sx + (IF isLeft THEN -infoOffsetX ELSE infoOffsetX),
                    sy + rowIdx * infoSpacingY + infoOffsetY)]
\* Clarifier nodes: two columns left and right of the source.
InfoNodes(items, sx, sy) ==
  LET mid == CeilHalf(Len(items))
  IN  [i \in 1..Len(items) |->
         LET idx == i - 1
             isLeft == idx < mid
             rowIdx == IF isLeft THEN idx ELSE idx - mid
         IN  MkNode(items[i].id, "info", items[i].label, Nil,
                    sx + (IF isLeft THEN -infoOffsetX ELSE infoOffsetX),
                    sy + rowIdx * infoSpacingY + infoOffsetY)]
EdgesTo(source, nodes, linkType) ==
  [i \in 1..Len(nodes) |-> MkEdge(source, nodes[i].id, linkType)]
\* Variant of NotIn: the candidates are not filtered against the existing ids.
NotInUnfiltered(items, ids) == items
\* branches.filter((b) => !existingIds.has(b.id))
NotIn(items, ids) == SelectSeq(items, LAMBDA b : b.id \notin ids)

\* The padded bounding region of the positions xs, ys of the expansion nodes.
Region(xs, ys) ==
  [minX |-> Min(xs) - EXPANSION_PADDING, maxX |-> Max(xs) + NODE_WIDTH + EXPANSION_PADDING,
   minY |-> Min(ys) - EXPANSION_PADDING, maxY |-> Max(ys) + NODE_HEIGHT + EXPANSION_PADDING]
PushOne(n, r) ==
  LET overlapLeft == n.x + NODE_WIDTH - r.minX
      overlapRight == r.maxX - n.x
      overlapTop == n.y + NODE_HEIGHT - r.minY
      overlapBottom == r.maxY - n.y
      overlapsX == overlapLeft > 0 /\ overlapRight > 0
      overlapsY == overlapTop > 0 /\ overlapBottom > 0
      \* nx < cx with cx = (minX + maxX) / 2
      dx == IF ~overlapsX THEN 0
            ELSE IF 2 * n.x < r.minX + r.maxX THEN -overlapLeft ELSE overlapRight
      dy == IF ~overlapsY THEN 0
            ELSE IF 2 * n.y < r.minY + r.maxY THEN -overlapTop ELSE overlapBottom
  IN  IF ~overlapsX /\ ~overlapsY THEN n ELSE [n EXCEPT !.x = n.x + dx, !.y = n.y + dy]
\* Variant of pushNodesAwayFromExpansion: no node is excluded from the pass.
pushNodesAwayExcludingNone(existingNodes, expansionNodes, excludeIds) ==
  IF Len(expansionNodes) = 0 THEN existingNodes
  ELSE LET r == Region({expansionNodes[i].x : i \in 1..Len(expansionNodes)},
                       {expansionNodes[i].y : i \in 1..Len(expansionNodes)})
       IN  [i \in 1..Len(existingNodes) |-> PushOne(existingNodes[i], r)]
pushNodesAwayFromExpansion(existingNodes, expansionNodes, excludeIds) ==
  IF Len(expansionNodes) = 0 THEN existingNodes
  ELSE LET r == Region({expansionNodes[i].x : i \in 1..Len(expansionNodes)},
                       {expansionNodes[i].y : i \in 1..Len(expansionNodes)})
       IN  [i \in 1..Len(existingNodes) |->
              IF existingNodes[i].id \in excludeIds THEN existingNodes[i]
              ELSE PushOne(existingNodes[i], r)]

----------------------------------------------------------------------------
\* The state updates applied when a generation request resolves.  Each maps
\* the map of the session selected at completion time to its replacement.

\* createRoot: .then of initializeNodeWithGemini
InitMerge(innerMap, res) ==
  LET sourceNode == FindNode(innerMap.nodes, "root")
      nodesUpdated == [i \in 1..Len(innerMap.nodes) |->
                         IF innerMap.nodes[i].id = "root"
                         THEN [innerMap.nodes[i] EXCEPT
                                 !.label = res.title, !.title = res.title,
                                 !.content = Or(res.content, @)]
                         ELSE innerMap.nodes[i]]
      existingIds == Ids(nodesUpdated)
      sx == sourceNode.x
      sy == sourceNode.y
      branchNodes == RowNodes(NotIn(res.branches, existingIds), "step", sx, sy, 0)
      answerNodes == RowNodes(NotIn(res.answers, existingIds), "answer", sx, sy,
                              Len(branchNodes))
      infoNodes == InfoNodes(NotIn(res.clarifies, existingIds), sx, sy)
  IN  [nodes |-> nodesUpdated \o branchNodes \o answerNodes \o infoNodes,
       edges |-> innerMap.edges \o EdgesTo("root", branchNodes, "post")
                 \o EdgesTo("root", answerNodes, "post") \o EdgesTo("root", infoNodes, "info")]

\* Variant of RepromptMerge: the edges of the session are kept.
RepromptMergeKeepingEdges(innerMap, rootNode, res) ==
  LET updatedRoot == [rootNode EXCEPT !.label = res.title, !.title = res.title,
                                      !.content = res.content, !.nodeType = "root"]
      branchNodes == RowNodes(res.branches, "step", rootNode.x, rootNode.y, 0)
      answerNodes == RowNodes(res.answers, "answer", rootNode.x, rootNode.y, Len(branchNodes))
      infoNodes == InfoNodes(res.clarifies, rootNode.x, rootNode.y)
  IN  [nodes |-> <<updatedRoot>> \o branchNodes \o answerNodes \o infoNodes,
       edges |-> innerMap.edges \o EdgesTo("root", branchNodes, "post")
                 \o EdgesTo("root", answerNodes, "post") \o EdgesTo("root", infoNodes, "info")]
\* Variant of RepromptMerge: the nodes of the session that the response does
\* not name are kept, as the other completion handlers do.
RepromptMergeAdditive(innerMap, rootNode, res) ==
  LET updatedRoot == [rootNode EXCEPT !.label = res.title, !.title = res.title,
                                      !.content = res.content, !.nodeType = "root"]
      branchNodes == RowNodes(res.branches, "step", rootNode.x, rootNode.y, 0)
      answerNodes == RowNodes(res.answers, "answer", rootNode.x, rootNode.y, Len(branchNodes))
      infoNodes == InfoNodes(res.clarifies, rootNode.x, rootNode.y)
      fresh == <<updatedRoot>> \o branchNodes \o answerNodes \o infoNodes
  IN  [nodes |-> fresh \o SelectSeq(innerMap.nodes, LAMBDA n : n.id \notin Ids(fresh)),
       edges |-> EdgesTo("root", branchNodes, "post") \o EdgesTo("root", answerNodes, "post")
                 \o EdgesTo("root", infoNodes, "info")]

\* repromptRootWithClarify: .then of the clarify request; rootNode is the
\* root captured when the request was issued.
RepromptMerge(innerMap, rootNode, res) ==
  LET updatedRoot == [rootNode EXCEPT !.label = res.title, !.title = res.title,
                                      !.content = res.content, !.nodeType = "root"]
      branchNodes == RowNodes(res.branches, "step", rootNode.x, rootNode.y, 0)
      answerNodes == RowNodes(res.answers, "answer", rootNode.x, rootNode.y, Len(branchNodes))
      infoNodes == InfoNodes(res.clarifies, rootNode.x, rootNode.y)
  IN  [nodes |-> <<updatedRoot>> \o branchNodes \o answerNodes \o infoNodes,
       edges |-> EdgesTo("root", branchNodes, "post") \o EdgesTo("root", answerNodes, "post")
                 \o EdgesTo("root", infoNodes, "info")]

\* Variant of AnswerPathMerge: only the edges of the new children are kept.
AnswerPathMergeNewEdges(innerMap, nodeId, userInput, res) ==
  LET existingIds == Ids(innerMap.nodes)
      source == FindNode(innerMap.nodes, nodeId)
      branchNodes == RowNodes(NotIn(res.branches, existingIds), "step", source.x, source.y, 0)
      answerNodes == RowNodes(NotIn(res.answers, existingIds), "answer", source.x, source.y,
                              Len(branchNodes))
      clarifyNodes == InfoNodes(NotIn(res.clarifies, existingIds), source.x, source.y)
  IN  [nodes |-> innerMap.nodes \o branchNodes \o answerNodes \o clarifyNodes,
       edges |-> EdgesTo(nodeId, branchNodes, "post") \o EdgesTo(nodeId, answerNodes, "post")
                 \o EdgesTo(nodeId, clarifyNodes, "info")]

\* expandAnswerPath: .then of the answerPath request
AnswerPathMerge(innerMap, nodeId, userInput, res) ==
  LET existingIds == Ids(innerMap.nodes)
      source == FindNode(innerMap.nodes, nodeId)
      pos == [x |-> source.x, y |-> source.y]
      nodesUpdated == [i \in 1..Len(innerMap.nodes) |->
                         IF innerMap.nodes[i].id = nodeId
                         THEN [innerMap.nodes[i] EXCEPT !.details = userInput, !.inputValue = ""]
                         ELSE innerMap.nodes[i]]
      branchNodes == RowNodes(NotIn(res.branches, existingIds), "step", pos.x, pos.y, 0)
      answerNodes == RowNodes(NotIn(res.answers, existingIds), "answer", pos.x, pos.y,
                              Len(branchNodes))
      allNewIds == Ids(nodesUpdated) \cup Ids(branchNodes) \cup Ids(answerNodes)
      clarifyNodes == InfoNodes(NotIn(res.clarifies, allNewIds), pos.x, pos.y)
      expansionNodes == <<pos>> \o branchNodes \o answerNodes \o clarifyNodes
      shiftedExisting == pushNodesAwayFromExpansion(nodesUpdated, expansionNodes, {nodeId})
  IN  [nodes |-> shiftedExisting \o branchNodes \o answerNodes \o clarifyNodes,
       edges |-> innerMap.edges \o EdgesTo(nodeId, branchNodes, "post")
                 \o EdgesTo(nodeId, answerNodes, "post")
                 \o EdgesTo(nodeId, clarifyNodes, "info")]

\* expandSelectedNodeWithGemini: .then of the expand request; sx, sy is the
\* position of the source node captured when the request was issued.
ExpandMerge(innerMap, sourceId, sx, sy, res) ==
  LET existingIds == Ids(innerMap.nodes)
      branchNodes == RowNodes(NotIn(res.branches, existingIds), "step", sx, sy, 0)
      answerNodes == RowNodes(NotIn(res.answers, existingIds), "answer", sx, sy,
                              Len(branchNodes))
      clarifyNodes == InfoNodes(NotIn(res.clarifies, existingIds), sx, sy)
  IN  [nodes |-> innerMap.nodes \o branchNodes \o answerNodes \o clarifyNodes,
       edges |-> innerMap.edges \o EdgesTo(sourceId, branchNodes, "post")
                 \o EdgesTo(sourceId, answerNodes, "post")
                 \o EdgesTo(sourceId, clarifyNodes, "info")]

----------------------------------------------------------------------------
\* Inputs.

\* Texts typed into the starter field and into a node's input.
RootLabels == {"Travel"}
UserTexts == {"more"}
\* Texts the backend answers with in live mode.
EmptyText == <<>>
LegacyText == << Plain("answer", "Legacy A"), Plain("answer", "Legacy B") >>
FullText ==
  << El("root", "Topic", "About"), El("step", "S1", "first"), El("step", "S1", "again"),
     El("step", "S2", Nil), El("answer", "A1", "sure"),
     Plain("clarify", "Q1"), Plain("clarify", "Q1"), Plain("clarify", "Q2"),
     Plain("clarify", "Q3") >>
\* a text without any recognized tag
PlainText == << Plain("text", "Sorry, no idea.") >>
LiveTexts == {EmptyText, PlainText, LegacyText, FullText}
\* Texts handed to the parser on its own: an optional leading line, an
\* optional <root>, and a run of <step>, <answer> and <clarify> elements, in
\* this order or with the tagged elements before the root.
Sub(tag, title, content, subtitle, rest) ==
  [tag |-> tag, title |-> title, content |-> content, subtitle |-> subtitle, rest |-> rest]
NumberedEls(tag, n) == [i \in 1..n |-> El(tag, tag \o ToString(i), Nil)]
NumberedPlain(tag, n) == [i \in 1..n |-> Plain(tag, tag \o ToString(i))]
ParserLines == {<<>>, <<Plain("text", "Some words")>>}
ParserRoots ==
  {<<>>, <<El("root", "Topic", "About")>>, <<Plain("root", "Bare topic")>>,
   <<Plain("root", "")>>, <<Sub("root", "", Nil, "Sub", "")>>,
   <<Plain("root", ""), El("root", "Second", Nil)>>}
ParserSteps ==
  {<<>>, <<Plain("step", "T1")>>, <<Plain("step", "")>>,
   <<El("step", "S1", "first"), El("step", "S1", "again"), El("step", "S2", Nil)>>,
   <<Sub("step", Nil, "Body", Nil, "")>>, <<Sub("step", Nil, "Body", Nil, "tail")>>,
   <<Sub("step", Nil, Nil, "Alias", "")>>, <<Sub("step", Nil, "Body", "Alias", "")>>,
   <<Sub("step", "", "Body", Nil, "")>>, <<Sub("step", "S3", Nil, "Alias", "tail")>>,
   NumberedEls("step", MaxBranches + 1),
   <<El("step", "step1", "dup")>> \o NumberedEls("step", MaxBranches + 1)}
ParserAnswers ==
  {<<>>, <<Plain("answer", "")>>, <<El("answer", "A1", "sure")>>,
   <<Plain("answer", "Legacy A"), Plain("answer", "Legacy B"), Plain("answer", "Legacy A")>>,
   <<Sub("answer", Nil, "Body", Nil, "tail")>>,
   NumberedEls("answer", MaxBranches + 1)}
ParserClarifies ==
  {<<>>, <<Plain("clarify", "Q1"), Plain("clarify", ""), Plain("clarify", "Q1"),
           Plain("clarify", "Q2")>>,
   NumberedPlain("clarify", MaxClarifies + 1),
   <<Plain("clarify", "clarify2")>> \o NumberedPlain("clarify", MaxClarifies + 1)}
ParserTexts ==
  {l \o r \o st \o a \o c :
     l \in ParserLines, r \in ParserRoots, st \in ParserSteps, a \in ParserAnswers,
     c \in ParserClarifies}
  \cup {c \o a \o st \o r :
          r \in ParserRoots, st \in ParserSteps, a \in ParserAnswers, c \in ParserClarifies}
\* Node ids the helpers are called with.
ParserNodeIds == {"root", "root-step-1"}
\* Values of Math.round(Math.random() * 300) and Math.round(Math.random() * 100)
\* (addDemoNode, addPreNode) and of Math.round(Math.random() * 40) (addInfoNode).
RandomOffsets == {[dx |-> 300, dy |-> 100, d |-> 40]}
\* Positions a node is dragged to.
DragPositions == {[x |-> 0, y |-> 400]}

----------------------------------------------------------------------------
\* State.

VARIABLES
  now,            \* the value Date.now() returned last
  sessions,       \* SessionsState.sessions
  selectedId,     \* SessionsState.selectedId
  maps,           \* SessionsState.maps: session id -> [nodes, edges]
  selectedNodeId, \* SessionsState.selectedNodeId (Nil for null)
  promptLoading,  \* SessionsState.promptLoading
  useMockLlm,     \* LlmSettingsState.useMockLlm
  timers,         \* pending setTimeout(..., 0) callbacks of createRoot
  inflight,       \* generation requests not yet resolved or rejected
  issued,         \* number of requests issued so far
  edits,          \* number of direct edits of a graph so far
  last            \* history: the last step taken

vars == <<now, sessions, selectedId, maps, selectedNodeId, promptLoading, useMockLlm,
          timers, inflight, issued, edits, last>>

\* Date.now() never goes back: the values it may return next.
Clock == now..MaxClock
\* newSession(title) when Date.now() returns t
newSession(title, t) ==
  [id |-> "s-" \o ToString(t), title |-> title, createdAt |-> t]

\* A generation request with what its completion handler has captured.
\* sid (the session selected when the request was issued) and concurrent
\* (the <<session, node id>> pairs other completions added while the request
\* was in flight) are history fields.
Request(purpose, nodeId, rootNode, sx, sy, userInput, question) ==
  [purpose |-> purpose, nodeId |-> nodeId, rootNode |-> rootNode, sx |-> sx, sy |-> sy,
   userInput |-> userInput, question |-> question, mock |-> useMockLlm,
   sid |-> selectedId, concurrent |-> {}]
NoRequest ==
  [purpose |-> Nil, nodeId |-> Nil, rootNode |-> NoNode, sx |-> 0, sy |-> 0,
   userInput |-> Nil, question |-> Nil, mock |-> FALSE, sid |-> Nil, concurrent |-> {}]
\* dropped: the ids of the nodes the step removed from the selected session.
Step(act, req, text, nodeId, nodeType) ==
  [act |-> act, req |-> req, text |-> text, nodeId |-> nodeId, nodeType |-> nodeType,
   dropped |-> {}]
Did(act) == Step(act, NoRequest, <<>>, Nil, Nil)

\* state.maps[sid] ?? { nodes: [], edges: [] }
MapOf(m, sid) == IF sid \in DOMAIN m THEN m[sid] ELSE EmptyMap
SetMap(m, sid, map) == (sid :> map) @@ m
SelMap == MapOf(maps, selectedId)

\* A mock request resolves in the microtasks of the task that issued it:
\* no user event or timer runs before its completion handler.
MockBusy == \E i \in 1..Len(inflight) : inflight[i].mock

\* Operations counted against MaxOps: requests issued or scheduled, direct
\* edits, sessions created.
Ops == issued + Len(timers) + edits + (Len(sessions) - 1)
MayRequest == issued + Len(timers) < MaxRequests /\ Ops < MaxOps
MayEdit == edits < MaxEdits /\ Ops < MaxOps

Init ==
  /\ now = 1
  /\ sessions = << [id |-> "s-1", title |-> "Session 1", createdAt |-> 1] >>
  /\ selectedId = "s-1"
  /\ maps = ("s-1" :> EmptyMap)
  /\ selectedNodeId = Nil
  /\ promptLoading = FALSE
  /\ useMockLlm \in BOOLEAN
  /\ timers = <<>>
  /\ inflight = <<>>
  /\ issued = 0
  /\ edits = 0
  /\ last = Did("init")

----------------------------------------------------------------------------
\* Synchronous store actions.

createSession ==
  /\ ~MockBusy
  /\ Len(sessions) < MaxSessions /\ Ops < MaxOps
  /\ \E t \in Clock :
       LET s == newSession("New Chat", t)
       IN  /\ sessions' = <<s>> \o sessions
           /\ selectedId' = s.id
           /\ maps' = SetMap(maps, s.id, EmptyMap)
           /\ now' = t
  /\ selectedNodeId' = Nil
  /\ last' = Did("createSession")
  /\ UNCHANGED <<promptLoading, useMockLlm, timers, inflight, issued, edits>>

selectSession ==
  \E i \in 1..Len(sessions) :
    /\ ~MockBusy
    /\ selectedId' = sessions[i].id
    /\ selectedNodeId' = Nil
    /\ last' = Did("selectSession")
    /\ UNCHANGED <<now, sessions, maps, promptLoading, useMockLlm, timers, inflight,
                   issued, edits>>

setSelectedNodeId ==
  \E id \in Ids(SelMap.nodes) \cup {Nil} :
    /\ ~MockBusy
    /\ Ops < MaxOps   \* clicks are followed while another operation can still run
    /\ selectedNodeId' = id
    /\ last' = Did("setSelectedNodeId")
    /\ UNCHANGED <<now, sessions, selectedId, maps, promptLoading, useMockLlm, timers,
                   inflight, issued, edits>>

\* updateNodeData(nodeId, patch) for the two patches the components use:
\* { inputValue: '' } (details = Nil) and { details, inputValue: '' }.
updateNodeData(m, nodeId, details) ==
  IF selectedId = Nil THEN m
  ELSE LET map == MapOf(m, selectedId)
           nodes == [i \in 1..Len(map.nodes) |->
                       IF map.nodes[i].id = nodeId
                       THEN [map.nodes[i] EXCEPT !.inputValue = "",
                                                 !.details = IF details # Nil THEN details ELSE @]
                       ELSE map.nodes[i]]
       IN  SetMap(m, selectedId, [map EXCEPT !.nodes = nodes])

\* Variant of createRoot: renaming an existing root also schedules the init
\* request.
createRootAlwaysInit ==
  \E label \in RootLabels :
    /\ ~MockBusy
    /\ selectedId # Nil
    /\ MayRequest
    /\ LET map == SelMap
       IN  IF HasNode(map.nodes, "root")
           THEN maps' = SetMap(maps, selectedId,
                     [map EXCEPT !.nodes =
                        [i \in 1..Len(map.nodes) |->
                           IF map.nodes[i].id = "root"
                           THEN [map.nodes[i] EXCEPT !.label = label, !.title = label,
                                                     !.nodeType = "root"]
                           ELSE map.nodes[i]]])
           ELSE maps' = SetMap(maps, selectedId,
                     [map EXCEPT !.nodes =
                        << [MkNode("root", "root", label, Nil, RootX, RootY)
                              EXCEPT !.title = label] >>])
    /\ timers' = Append(timers, [label |-> label, sid |-> selectedId])
    /\ selectedNodeId' = "root"
    /\ last' = Did("createRoot")
    /\ UNCHANGED <<now, sessions, selectedId, promptLoading, useMockLlm, inflight, issued,
                   edits>>

createRoot ==
  \E label \in RootLabels :
    /\ ~MockBusy
    /\ selectedId # Nil
    /\ LET map == SelMap
       IN  IF HasNode(map.nodes, "root")
           THEN /\ maps' = SetMap(maps, selectedId,
                     [map EXCEPT !.nodes =
                        [i \in 1..Len(map.nodes) |->
                           IF map.nodes[i].id = "root"
                           THEN [map.nodes[i] EXCEPT !.label = label, !.title = label,
                                                     !.nodeType = "root"]
                           ELSE map.nodes[i]]])
                /\ UNCHANGED timers
           ELSE /\ MayRequest
                /\ maps' = SetMap(maps, selectedId,
                     [map EXCEPT !.nodes =
                        << [MkNode("root", "root", label, Nil, RootX, RootY)
                              EXCEPT !.title = label] >>])
                /\ timers' = Append(timers, [label |-> label, sid |-> selectedId])
    /\ selectedNodeId' = "root"
    /\ last' = Did("createRoot")
    /\ UNCHANGED <<now, sessions, selectedId, promptLoading, useMockLlm, inflight, issued,
                   edits>>

\* baseNodes of the add-node actions: a plain root is inserted when missing
BaseNodes(map) == IF HasNode(map.nodes, "root") THEN map.nodes ELSE <<PlainRoot>> \o map.nodes
\* state.selectedNodeId ?? 'root'
SelectedOrRoot == IF selectedNodeId # Nil THEN selectedNodeId ELSE "root"

addDemoNode ==
  \E r \in RandomOffsets, t \in Clock :
    /\ ~MockBusy
    /\ selectedId # Nil
    /\ MayEdit
    /\ LET map == SelMap
           id == "demo-" \o ToString(t)
           newNode == MkNode(id, "step", "Post Node", Nil, 150 + r.dx, 300 + r.dy)
           newEdge == MkEdge(SelectedOrRoot, id, "post")
       IN  maps' = SetMap(maps, selectedId,
                     [nodes |-> Append(BaseNodes(map), newNode),
                      edges |-> Append(map.edges, newEdge)])
    /\ edits' = edits + 1
    /\ now' = t
    /\ last' = Did("addDemoNode")
    /\ UNCHANGED <<sessions, selectedId, selectedNodeId, promptLoading, useMockLlm,
                   timers, inflight, issued>>

addPreNode ==
  \E r \in RandomOffsets, t \in Clock :
    /\ ~MockBusy
    /\ selectedId # Nil
    /\ MayEdit
    /\ LET map == SelMap
           id == "pre-" \o ToString(t)
           newNode == MkNode(id, "pre", "Pre Node", Nil, 150 + r.dx, 50 + r.dy)
           newEdge == MkEdge(id, SelectedOrRoot, "pre")
       IN  maps' = SetMap(maps, selectedId,
                     [nodes |-> Append(BaseNodes(map), newNode),
                      edges |-> Append(map.edges, newEdge)])
    /\ edits' = edits + 1
    /\ now' = t
    /\ last' = Did("addPreNode")
    /\ UNCHANGED <<sessions, selectedId, selectedNodeId, promptLoading, useMockLlm,
                   timers, inflight, issued>>

addInfoNode ==
  \E r \in RandomOffsets, t \in Clock :
    /\ ~MockBusy
    /\ selectedId # Nil
    /\ MayEdit
    /\ LET map == SelMap
           id == "info-" \o ToString(t)
           found == HasNode(BaseNodes(map), SelectedOrRoot)
           sourceNode == FindNode(BaseNodes(map), SelectedOrRoot)
           sx == IF found THEN sourceNode.x ELSE 250
           sy == IF found THEN sourceNode.y ELSE 100
           newNode == MkNode(id, "info", "Info Node", Nil, sx + 180, sy + (r.d - 20))
           newEdge == MkEdge(SelectedOrRoot, id, "info")
       IN  maps' = SetMap(maps, selectedId,
                     [nodes |-> Append(BaseNodes(map), newNode),
                      edges |-> Append(map.edges, newEdge)])
    /\ edits' = edits + 1
    /\ now' = t
    /\ last' = Did("addInfoNode")
    /\ UNCHANGED <<sessions, selectedId, selectedNodeId, promptLoading, useMockLlm,
                   timers, inflight, issued>>

RemoveAt(s, i) == SubSeq(s, 1, i - 1) \o SubSeq(s, i + 1, Len(s))

\* setNodes(nodes) with the node lists React Flow's applyNodeChanges produces
\* for the selected node: the node dragged to another position, or removed.
setNodes ==
  /\ ~MockBusy
  /\ selectedId # Nil
  /\ MayEdit
  /\ \E i \in 1..Len(SelMap.nodes) :
       /\ SelMap.nodes[i].id = selectedNodeId
       /\ \/ \E p \in DragPositions :
               maps' = SetMap(maps, selectedId,
                         [SelMap EXCEPT !.nodes[i].x = p.x, !.nodes[i].y = p.y])
          \/ maps' = SetMap(maps, selectedId, [SelMap EXCEPT !.nodes = RemoveAt(@, i)])
  /\ edits' = edits + 1
  /\ last' = Did("setNodes")
  /\ UNCHANGED <<now, sessions, selectedId, selectedNodeId, promptLoading, useMockLlm,
                 timers, inflight, issued>>

\* setEdges(edges) with the edge list applyEdgeChanges produces when the
\* edges of the selected node are removed.
setEdges ==
  /\ ~MockBusy
  /\ selectedId # Nil
  /\ MayEdit
  /\ \E i \in 1..Len(SelMap.edges) : selectedNodeId \in {SelMap.edges[i].source, SelMap.edges[i].target}
  /\ maps' = SetMap(maps, selectedId,
               [SelMap EXCEPT !.edges =
                  SelectSeq(@, LAMBDA e : selectedNodeId \notin {e.source, e.target})])
  /\ edits' = edits + 1
  /\ last' = Did("setEdges")
  /\ UNCHANGED <<now, sessions, selectedId, selectedNodeId, promptLoading, useMockLlm,
                 timers, inflight, issued>>

----------------------------------------------------------------------------
\* Issuing generation requests.

\* The setTimeout callback of createRoot: set({ promptLoading: true }) and
\* the init request.
InitTimer ==
  /\ ~MockBusy
  /\ Len(timers) > 0
  /\ promptLoading' = TRUE
  /\ LET req == [Request("init", "root", NoNode, 0, 0, Nil, Nil) EXCEPT !.sid = Head(timers).sid]
     IN  /\ inflight' = Append(inflight, req)
         /\ last' = Step("InitTimer", req, <<>>, "root", Nil)
  /\ timers' = Tail(timers)
  /\ issued' = issued + 1
  /\ UNCHANGED <<now, sessions, selectedId, maps, selectedNodeId, useMockLlm, edits>>

\* The inner set({ promptLoading: true }) runs inside the updater of the outer
\* set, which returns the state object it was given: the store merges that
\* object over the current state, so promptLoading is back at its old value
\* when the action returns.
expandSelectedNodeWithGemini ==
  /\ ~MockBusy
  /\ selectedId # Nil
  /\ MayRequest
  /\ Len(SelectedOrRoot) <= MaxIdLen
  /\ LET found == HasNode(SelMap.nodes, SelectedOrRoot)
         sourceNode == FindNode(SelMap.nodes, SelectedOrRoot)
         req == Request("expand", SelectedOrRoot, NoNode,
                        IF found THEN sourceNode.x ELSE RootX,
                        IF found THEN sourceNode.y ELSE RootY, Nil, Nil)
     IN  /\ inflight' = Append(inflight, req)
         /\ last' = Step("expandSelectedNodeWithGemini", req, <<>>, SelectedOrRoot, Nil)
  /\ issued' = issued + 1
  /\ UNCHANGED <<now, sessions, selectedId, maps, selectedNodeId, promptLoading, useMockLlm,
                 timers, edits>>

\* The store action repromptRootWithClarify up to the request: the request it
\* issues, or NoRequest when it returns early.
RepromptRequest(clarifyingQuestion, userAnswer) ==
  IF selectedId = Nil \/ ~HasNode(SelMap.nodes, "root") THEN NoRequest
  ELSE LET rootNode == FindNode(SelMap.nodes, "root")
       IN  Request("clarify", "root", rootNode, rootNode.x, rootNode.y, userAnswer,
                   clarifyingQuestion)

\* Variant of AnswerPathRequest: the source node is not looked up.
AnswerPathRequestAnySource(nodeId, userInput) ==
  IF \/ selectedId = Nil
     \/ ~HasNode(SelMap.nodes, "root")
  THEN NoRequest
  ELSE Request("answerPath", nodeId, NoNode, 0, 0, userInput, Nil)

\* The store action expandAnswerPath up to the request.
AnswerPathRequest(nodeId, userInput) ==
  IF \/ selectedId = Nil
     \/ ~HasNode(SelMap.nodes, "root")
     \/ ~HasNode(SelMap.nodes, nodeId)
  THEN NoRequest
  ELSE Request("answerPath", nodeId, NoNode, 0, 0, userInput, Nil)

\* nodeType of a rendered node: data.nodeType ?? 'default'
NodeTypeOf(n) == IF n.nodeType # Nil THEN n.nodeType ELSE "default"

\* Variant of SubmitRequest: a submit on an info node passes no question.
SubmitRequestNoQuestion(n, value) ==
  CASE NodeTypeOf(n) \in {"root", "info"} -> RepromptRequest(Nil, value)
    [] NodeTypeOf(n) \in {"step", "pre"} -> AnswerPathRequest(n.id, value)
    [] OTHER -> NoRequest
\* Variant of SubmitDetails: the submitted text is never stored.
SubmitDetailsNone(n, value) == Nil

\* The request handleSubmit / handleNotesSubmit issue for node n and the
\* trimmed input value, or NoRequest.
SubmitRequest(n, value) ==
  CASE NodeTypeOf(n) = "root" -> RepromptRequest(Nil, value)
    [] NodeTypeOf(n) = "info" -> RepromptRequest(Or(Or(n.title, n.label), "Node Title"), value)
    [] NodeTypeOf(n) \in {"step", "pre"} -> AnswerPathRequest(n.id, value)
    [] OTHER -> NoRequest
\* The details the handlers pass to updateNodeData (Nil: only inputValue).
SubmitDetails(n, value) ==
  IF NodeTypeOf(n) \in {"root", "info", "step", "pre"} THEN Nil ELSE value

\* handleSubmit of MindNode / handleNotesSubmit of the node page on the
\* i-th node of the selected session with a non-blank input.
Submit ==
  \E i \in 1..Len(SelMap.nodes), value \in UserTexts :
    LET n == SelMap.nodes[i]
        req == SubmitRequest(n, value)
    IN  /\ ~MockBusy
        /\ IF req # NoRequest THEN MayRequest /\ Len(n.id) <= MaxIdLen ELSE MayEdit
        /\ inflight' = IF req # NoRequest THEN Append(inflight, req) ELSE inflight
        /\ issued' = IF req # NoRequest THEN issued + 1 ELSE issued
        /\ promptLoading' = IF req # NoRequest THEN TRUE ELSE promptLoading
        /\ maps' = updateNodeData(maps, n.id, SubmitDetails(n, value))
        /\ last' = Step("Submit", req, <<>>, n.id, NodeTypeOf(n))
        /\ edits' = IF req # NoRequest THEN edits ELSE edits + 1
        /\ UNCHANGED <<now, sessions, selectedId, selectedNodeId, useMockLlm, timers>>

----------------------------------------------------------------------------
\* Completion of generation requests.

\* The parsed result of the request's helper in lib/llm.ts and its merge into
\* innerMap, the map of the session selected when the handler runs.
ResolveMap(r, text, innerMap) ==
  CASE r.purpose = "init" ->
         InitMerge(innerMap, initializeNodeWithGemini(text, r.nodeId))
    [] r.purpose = "clarify" ->
         RepromptMerge(innerMap, r.rootNode,
           repromptRootWithClarifyLlm(text, Or(Or(r.rootNode.title, r.rootNode.label), "Root"),
                                      r.rootNode.content))
    [] r.purpose = "answerPath" ->
         AnswerPathMerge(innerMap, r.nodeId, r.userInput,
                         expandAnswerPathWithGemini(text, r.nodeId))
    [] OTHER ->
         ExpandMerge(innerMap, r.nodeId, r.sx, r.sy, expandNodeWithGemini(text, r.nodeId))

\* selectedNodeId in the object the completion handler returns
ResolveSelection(r, old) ==
  CASE r.purpose = "clarify" -> "root"
    [] r.purpose = "answerPath" -> r.nodeId
    [] OTHER -> old

\* Variant of DoneLoading: the handler leaves promptLoading alone.
DoneLoadingKept(old) == old
\* promptLoading after a completion handler or a catch handler
DoneLoading(old) == FALSE

\* generateText: the canned text in mock mode, any backend text in live mode
ResponseTexts(r) == IF r.mock THEN {getMockResponse(r.purpose)} ELSE LiveTexts

\* The requests still in flight after the i-th completed and added the nodes
\* `added` to session sid.
Remaining(i, sid, added) ==
  [j \in 1..(Len(inflight) - 1) |->
     LET q == IF j < i THEN inflight[j] ELSE inflight[j + 1]
     IN  [q EXCEPT !.concurrent = @ \cup {<<sid, id>> : id \in added}]]

Resolve ==
  \E i \in 1..Len(inflight) :
    LET r == inflight[i]
    IN  /\ MockBusy => r.mock
        /\ selectedId # Nil
        /\ \E text \in ResponseTexts(r) :
             \E newMap \in {ResolveMap(r, text, SelMap)} :
               /\ maps' = SetMap(maps, selectedId, newMap)
               /\ inflight' = Remaining(i, selectedId, Ids(newMap.nodes) \ Ids(SelMap.nodes))
               /\ last' = [Step("Resolve", r, text, r.nodeId, Nil) EXCEPT
                             !.dropped = Ids(SelMap.nodes) \ Ids(newMap.nodes)]
        /\ selectedNodeId' = ResolveSelection(r, selectedNodeId)
        /\ promptLoading' = DoneLoading(promptLoading)
        /\ UNCHANGED <<now, sessions, selectedId, useMockLlm, timers, issued, edits>>

\* generateText throws (fetch fails or the status is not OK): the catch
\* handler runs.  Mock requests never reject.
Reject ==
  \E i \in 1..Len(inflight) :
    LET r == inflight[i]
    IN  /\ ~MockBusy
        /\ ~r.mock
        /\ inflight' = Remaining(i, selectedId, {})
        /\ last' = Step("Reject", r, <<>>, r.nodeId, Nil)
        /\ promptLoading' = DoneLoading(promptLoading)
        /\ UNCHANGED <<now, sessions, selectedId, maps, selectedNodeId, useMockLlm, timers,
                       issued, edits>>

----------------------------------------------------------------------------
\* Specifications.

Next ==
  \/ createSession
  \/ selectSession
  \/ setSelectedNodeId
  \/ createRoot
  \/ addDemoNode
  \/ addPreNode
  \/ addInfoNode
  \/ setNodes
  \/ setEdges
  \/ InitTimer
  \/ expandSelectedNodeWithGemini
  \/ Submit
  \/ Resolve
  \/ Reject

Spec == Init /\ [][Next]_vars

\* The five orchestration operations alone (createRoot, the root-init
\* completion, expandSelectedNodeWithGemini, expandAnswerPath and
\* repromptRootWithClarify through the submit handlers), with the session list
\* and the node selection they read.
NextOrchestration ==
  \/ createSession
  \/ selectSession
  \/ setSelectedNodeId
  \/ createRoot
  \/ InitTimer
  \/ expandSelectedNodeWithGemini
  \/ Submit
  \/ Resolve
  \/ Reject

SpecOrchestration == Init /\ [][NextOrchestration]_vars

\* The store's own actions: all but setNodes and setEdges, through which the
\* canvas writes back its changes (drags and removals).
NextStoreActions ==
  \/ createSession
  \/ selectSession
  \/ setSelectedNodeId
  \/ createRoot
  \/ addDemoNode
  \/ addPreNode
  \/ addInfoNode
  \/ InitTimer
  \/ expandSelectedNodeWithGemini
  \/ Submit
  \/ Resolve
  \/ Reject

SpecStoreActions == Init /\ [][NextStoreActions]_vars

----------------------------------------------------------------------------
\* The helpers of lib/llm.ts on their own: generateText has resolved with a
\* text and the helper parses it.  last holds the text, the node id and the
\* result the helper returns.

Parsed(act, text, nodeId, res) ==
  [act |-> act, text |-> text, nodeId |-> nodeId, res |-> res]

InitParser ==
  /\ now = 1
  /\ sessions = << [id |-> "s-1", title |-> "Session 1", createdAt |-> 1] >>
  /\ selectedId = "s-1"
  /\ maps = ("s-1" :> EmptyMap)
  /\ selectedNodeId = Nil
  /\ promptLoading = FALSE
  /\ useMockLlm = FALSE
  /\ timers = <<>>
  /\ inflight = <<>>
  /\ issued = 0
  /\ edits = 0
  /\ \E text \in ParserTexts, nodeId \in ParserNodeIds :
       last = Parsed("generateText", text, nodeId, Nil)

ParseInitialize ==
  /\ last.act = "generateText"
  /\ last.nodeId = "root"
  /\ last' = Parsed("initializeNodeWithGemini", last.text, last.nodeId,
                    initializeNodeWithGemini(last.text, last.nodeId))
  /\ UNCHANGED <<now, sessions, selectedId, maps, selectedNodeId, promptLoading, useMockLlm,
                 timers, inflight, issued, edits>>

ParseExpandNode ==
  /\ last.act = "generateText"
  /\ last' = Parsed("expandNodeWithGemini", last.text, last.nodeId,
                    expandNodeWithGemini(last.text, last.nodeId))
  /\ UNCHANGED <<now, sessions, selectedId, maps, selectedNodeId, promptLoading, useMockLlm,
                 timers, inflight, issued, edits>>

ParseExpandAnswerPath ==
  /\ last.act = "generateText"
  /\ last' = Parsed("expandAnswerPathWithGemini", last.text, last.nodeId,
                    expandAnswerPathWithGemini(last.text, last.nodeId))
  /\ UNCHANGED <<now, sessions, selectedId, maps, selectedNodeId, promptLoading, useMockLlm,
                 timers, inflight, issued, edits>>

ParseReprompt ==
  /\ last.act = "generateText"
  /\ last.nodeId = "root"
  /\ \E rootTitle \in RootLabels :
       last' = Parsed("repromptRootWithClarify", last.text, last.nodeId,
                      repromptRootWithClarifyLlm(last.text, rootTitle, Nil))
  /\ UNCHANGED <<now, sessions, selectedId, maps, selectedNodeId, promptLoading, useMockLlm,
                 timers, inflight, issued, edits>>

NextParser ==
  \/ ParseInitialize
  \/ ParseExpandNode
  \/ ParseExpandAnswerPath
  \/ ParseReprompt

SpecParser == InitParser /\ [][NextParser]_vars

----------------------------------------------------------------------------
\* One call of generateText (lib/llm.ts) and the POST handler of /api/llm it
\* reaches in live mode.  last holds the call: the request, whether the
\* backend was contacted, what the backend met (API key, outcome of the model
\* call), the backend's response and how the promise settled.

\* Request payloads.  messages: undefined and [] are treated alike by the
\* handler and are both <<>> here.
Msg(role, content) == [role |-> role, content |-> content]
LlmPrompts == {Nil, "", "Hello"}
LlmMessages ==
  {<<>>, <<Msg("system", "Be brief")>>, <<Msg("user", "")>>, <<Msg("user", "Hi")>>,
   <<Msg("system", "Be brief"), Msg("user", "Hi"), Msg("assistant", "Hello")>>}
LlmPromptTypes == {Nil, "init", "expand", "clarify", "answerPath", "other"}
LlmRequest(prompt, messages, promptType) ==
  [prompt |-> prompt, messages |-> messages, promptType |-> promptType]
\* Lines of white space only.
SpaceLines == {"", " "}
\* What generateContent does: it returns a text or throws.
ModelOutcome(kind, text) == [kind |-> kind, text |-> text]
NoOutcome == ModelOutcome("none", <<>>)
ModelOutcomes ==
  {ModelOutcome("text", t) : t \in {<<>>, <<Plain("text", " ")>>, PlainText, FullText}}
  \cup {ModelOutcome("throws", <<>>)}

\* !text || text.trim().length === 0
TextBlank(text) == \A i \in 1..Len(text) : text[i].tag = "text" /\ text[i].rest \in SpaceLines

\* new Response(JSON.stringify({ text }) or ({ error }), { status })
Response(status, text, error) == [status |-> status, text |-> text, error |-> error]
NoResponse == Response(0, <<>>, "")

\* Variant of fallbackText: no text for a promptType the handler does not know.
fallbackTextKnownOnly(promptType) ==
  CASE promptType = "expand" ->
         << El("step", "Option A", "First option."),
            El("step", "Option B", "Second option."),
            El("answer", "Suggested", "When confident, a final answer."),
            Plain("clarify", "Would you like more branches or details?") >>
    [] promptType = "init" ->
         << El("root", "Get started", "Refined from your idea"),
            El("step", "First step", "First step description."),
            El("step", "Second step", "Second step description."),
            El("answer", "Direct answer", "When confident, a final answer option."),
            Plain("clarify", "Any constraints or preferences?") >>
    [] promptType = "answerPath" ->
         << El("step", "Next step A", "Content for first option."),
            El("step", "Next step B", "Content for second option."),
            El("answer", "Final answer", "Confident conclusion when applicable."),
            Plain("clarify", "Need more detail?") >>
    [] promptType = "clarify" ->
         << El("root", "Refined topic", "With your context applied"),
            El("step", "Option A", "Description for option A."),
            El("step", "Option B", "Description for option B."),
            El("answer", "Recommended", "Best fit when sure."),
            Plain("clarify", "Need more detail?") >>
    [] OTHER -> <<>>
\* The boilerplate text the handler answers with when the model gave none.
fallbackText(promptType) ==
  CASE promptType = "expand" ->
         << El("step", "Option A", "First option."),
            El("step", "Option B", "Second option."),
            El("answer", "Suggested", "When confident, a final answer."),
            Plain("clarify", "Would you like more branches or details?") >>
    [] promptType = "init" ->
         << El("root", "Get started", "Refined from your idea"),
            El("step", "First step", "First step description."),
            El("step", "Second step", "Second step description."),
            El("answer", "Direct answer", "When confident, a final answer option."),
            Plain("clarify", "Any constraints or preferences?") >>
    [] promptType = "answerPath" ->
         << El("step", "Next step A", "Content for first option."),
            El("step", "Next step B", "Content for second option."),
            El("answer", "Final answer", "Confident conclusion when applicable."),
            Plain("clarify", "Need more detail?") >>
    [] promptType = "clarify" ->
         << El("root", "Refined topic", "With your context applied"),
            El("step", "Option A", "Description for option A."),
            El("step", "Option B", "Description for option B."),
            El("answer", "Recommended", "Best fit when sure."),
            Plain("clarify", "Need more detail?") >>
    [] OTHER ->
         << El("step", "Option 1", "First option."),
            El("step", "Option 2", "Second option."),
            El("answer", "Suggested", "When confident."),
            Plain("clarify", "Want more details?") >>

\* The Gemini contents the handler builds from the payload.
Contents(req) ==
  IF Len(req.messages) > 0
  THEN LET kept == SelectSeq(req.messages,
                             LAMBDA m : m.content # "" /\ m.role \in {"assistant", "user"})
       IN  [i \in 1..Len(kept) |->
              [role |-> IF kept[i].role = "assistant" THEN "model" ELSE "user",
               text |-> kept[i].content]]
  ELSE IF req.prompt # Nil THEN << [role |-> "user", text |-> req.prompt] >>
  ELSE <<>>

\* POST(req): the response for payload req when the API key is configured or
\* not (apiKey) and the model call ends as `outcome`.  The payload is the
\* JSON generateText sent, and the SDK's constructors return.
POST(req, apiKey, outcome) ==
  IF req.prompt \in {Nil, ""} /\ Len(req.messages) = 0
  THEN Response(400, <<>>, "Missing prompt or messages")
  ELSE IF ~apiKey THEN Response(500, <<>>, "Missing GEMINI_API_KEY/GOOGLE_API_KEY")
  ELSE IF Len(Contents(req)) = 0 THEN Response(400, <<>>, "No valid content to process")
  ELSE LET text == IF outcome.kind = "text" THEN outcome.text ELSE <<>>
           usedFallback == TextBlank(text)
       IN  Response(200, IF usedFallback THEN fallbackText(req.promptType) ELSE text, "")

\* How the promise of generateText settles.
Settled(how, text, error) == [how |-> how, text |-> text, error |-> error]
Pending == Settled("pending", <<>>, "")
\* Variant of generateTextLive: the status of the response is not looked at.
generateTextLiveAnyStatus(response) == Settled("resolved", response.text, "")
\* generateText in live mode once fetch has resolved with `response`.
generateTextLive(response) ==
  IF response.status \in 200..299 THEN Settled("resolved", response.text, "")
  ELSE Settled("rejected", <<>>, "LLM error: " \o ToString(response.status))

Call(act, req, contacted, apiKey, outcome, response, result) ==
  [act |-> act, req |-> req, contacted |-> contacted, apiKey |-> apiKey,
   outcome |-> outcome, response |-> response, result |-> result]

InitLlm ==
  /\ now = 1
  /\ sessions = << [id |-> "s-1", title |-> "Session 1", createdAt |-> 1] >>
  /\ selectedId = "s-1"
  /\ maps = ("s-1" :> EmptyMap)
  /\ selectedNodeId = Nil
  /\ promptLoading = FALSE
  /\ useMockLlm \in BOOLEAN
  /\ timers = <<>>
  /\ inflight = <<>>
  /\ issued = 0
  /\ edits = 0
  /\ \E prompt \in LlmPrompts, messages \in LlmMessages, promptType \in LlmPromptTypes :
       last = Call("generateText", LlmRequest(prompt, messages, promptType), FALSE, FALSE,
                   NoOutcome, NoResponse, Pending)

\* generateText with the mock toggle on
generateTextMock ==
  /\ last.act = "generateText"
  /\ useMockLlm
  /\ last' = [last EXCEPT !.act = "settled",
                          !.result = Settled("resolved", getMockResponse(last.req.promptType), "")]
  /\ UNCHANGED <<now, sessions, selectedId, maps, selectedNodeId, promptLoading, useMockLlm,
                 timers, inflight, issued, edits>>

\* generateText in live mode: fetch('/api/llm', ...) sends the request
Fetch ==
  /\ last.act = "generateText"
  /\ ~useMockLlm
  /\ last' = [last EXCEPT !.act = "fetch", !.contacted = TRUE]
  /\ UNCHANGED <<now, sessions, selectedId, maps, selectedNodeId, promptLoading, useMockLlm,
                 timers, inflight, issued, edits>>

\* The handler runs and answers.
Respond ==
  /\ last.act = "fetch"
  /\ \E apiKey \in BOOLEAN, outcome \in ModelOutcomes :
       last' = [last EXCEPT !.act = "POST", !.apiKey = apiKey, !.outcome = outcome,
                            !.response = POST(last.req, apiKey, outcome)]
  /\ UNCHANGED <<now, sessions, selectedId, maps, selectedNodeId, promptLoading, useMockLlm,
                 timers, inflight, issued, edits>>

\* The request or its answer is lost: fetch rejects, and so does generateText.
FetchFails ==
  /\ last.act \in {"fetch", "POST"}
  /\ last' = [last EXCEPT !.act = "settled", !.response = NoResponse,
                          !.result = Settled("rejected", <<>>, "Failed to fetch")]
  /\ UNCHANGED <<now, sessions, selectedId, maps, selectedNodeId, promptLoading, useMockLlm,
                 timers, inflight, issued, edits>>

\* fetch resolves with the handler's response.
Receive ==
  /\ last.act = "POST"
  /\ last' = [last EXCEPT !.act = "settled", !.result = generateTextLive(last.response)]
  /\ UNCHANGED <<now, sessions, selectedId, maps, selectedNodeId, promptLoading, useMockLlm,
                 timers, inflight, issued, edits>>

NextLlm ==
  \/ generateTextMock
  \/ Fetch
  \/ Respond
  \/ FetchFails
  \/ Receive

SpecLlm == InitLlm /\ [][NextLlm]_vars

----------------------------------------------------------------------------
\* Properties.

IdsOf(items) == [i \in 1..Len(items) |-> items[i].id]
UniqueIds(nodes) == \A i, j \in 1..Len(nodes) : nodes[i].id = nodes[j].id => i = j
NodesOfType(nodes, t) == SelectSeq(nodes, LAMBDA n : n.nodeType = t)
\* The items of a parsed response in the order the handlers lay them out.
Items(res) == res.branches \o res.answers \o res.clarifies
\* The map of the selected session after the step.
SelMapAfter == MapOf(maps', selectedId')
Resolved(purpose) == last.act = "Resolve" /\ last.req.purpose = purpose
ResolvedNext(purpose) == last'.act = "Resolve" /\ last'.req.purpose = purpose
\* What a response's items look like as freshly made children: one node per
\* step, answer and clarify, in this order, with no details.
FreshChildren(res) ==
  [i \in 1..Len(res.branches) |->
     [id |-> res.branches[i].id, label |-> res.branches[i].label, nodeType |-> "step",
      details |-> Nil]]
  \o [i \in 1..Len(res.answers) |->
        [id |-> res.answers[i].id, label |-> res.answers[i].label, nodeType |-> "answer",
         details |-> Nil]]
  \o [i \in 1..Len(res.clarifies) |->
        [id |-> res.clarifies[i].id, label |-> res.clarifies[i].label, nodeType |-> "info",
         details |-> Nil]]
ChildView(nodes) ==
  [i \in 1..Len(nodes) |->
     [id |-> nodes[i].id, label |-> nodes[i].label, nodeType |-> nodes[i].nodeType,
      details |-> nodes[i].details]]

\* C1: after any interleaving of createRoot, the root-init completion,
\* expandSelectedNodeWithGemini, expandAnswerPath and repromptRootWithClarify,
\* with several requests in flight completing in any order, no two nodes of
\* a session's graph have the same id and at most one node has id "root".
C1_UniqueNodeIds ==
  \A sid \in DOMAIN maps :
    /\ UniqueIds(maps[sid].nodes)
    /\ Cardinality({i \in 1..Len(maps[sid].nodes) : maps[sid].nodes[i].id = "root"}) <= 1

\* A completion whose response names a node that another completion added to
\* the same session while the request was in flight.
C1_Witness ==
  /\ last.act = "Resolve"
  /\ last.req.purpose \in {"init", "expand", "answerPath"}
  /\ last.text = FullText
  /\ \E p \in last.req.concurrent :
       /\ p[1] = selectedId
       /\ p[2] \in Range(IdsOf(Items(ParseExpansion(last.text, last.req.nodeId))))
  /\ Len(SelMap.nodes) >= 5

\* C2: when the generation call of any of the four operations rejects,
\* promptLoading becomes false and the nodes and edges of every session are
\* what they were just before the rejection was handled.
C2_RejectLeavesGraphs ==
  [][last'.act = "Reject" => promptLoading' = FALSE /\ maps' = maps]_vars

C2_Witness ==
  /\ last.act = "Reject"
  /\ last.req.purpose = "clarify"
  /\ Len(SelMap.nodes) > 1
  /\ ~promptLoading

\* C3: when expandAnswerPath(n1, input) completes, every node that was in
\* the graph is still there with the same id, nodeType and label (only
\* positions may differ, and only n1's details and inputValue change), and
\* every edge that was in the graph is still there unchanged.
C3_AnswerPathKeepsGraph ==
  [][ResolvedNext("answerPath") =>
       LET old == SelMap
           new == SelMapAfter
           n1 == last'.req.nodeId
       IN  /\ Len(new.nodes) >= Len(old.nodes)
           /\ \A i \in 1..Len(old.nodes) :
                LET o == old.nodes[i]
                    n == new.nodes[i]
                IN  /\ n.id = o.id /\ n.nodeType = o.nodeType /\ n.label = o.label
                    /\ n.title = o.title /\ n.content = o.content
                    /\ o.id # n1 => n.details = o.details /\ n.inputValue = o.inputValue
                    /\ o.id = n1 => n.details = last'.req.userInput /\ n.inputValue = ""
           /\ Len(new.edges) >= Len(old.edges)
           /\ SubSeq(new.edges, 1, Len(old.edges)) = old.edges]_vars

\* An answer-path completion that added children to a node of a graph with
\* other nodes.
C3_Witness ==
  /\ Resolved("answerPath")
  /\ HasNode(SelMap.nodes, "root")
  /\ HasNode(SelMap.nodes, last.req.nodeId)
  /\ FindNode(SelMap.nodes, last.req.nodeId).details = last.req.userInput
  /\ HasNode(SelMap.nodes, last.req.nodeId \o "-step-1")
  /\ Len(SelMap.edges) >= 2

\* C4: when repromptRootWithClarify completes, the graph consists of the
\* root plus exactly one fresh node per parsed step, answer and clarify item,
\* every other node that was in the graph (the former children of root among
\* them) is gone in that one update, and the number of root children equals
\* steps + answers + clarifies of the parsed response.
C4_RepromptReplacesChildren ==
  [][ResolvedNext("clarify") =>
       \A items \in {FreshChildren(repromptRootWithClarifyLlm(last'.text,
                       Or(Or(last'.req.rootNode.title, last'.req.rootNode.label), "Root"),
                       last'.req.rootNode.content))} :
         \A new \in {SelMapAfter} :
           /\ new.nodes # <<>>
           /\ new.nodes[1].id = "root" /\ new.nodes[1].nodeType = "root"
           /\ ChildView(Tail(new.nodes)) = items
           /\ Ids(SelMap.nodes) \cap Ids(new.nodes) \subseteq {"root"} \cup Ids(items)
           /\ [k \in 1..Len(new.edges) |->
                 [source |-> new.edges[k].source, target |-> new.edges[k].target,
                  nodeType |-> IF new.edges[k].linkType = "info" THEN {"info"}
                               ELSE {"step", "answer"}]]
              = [k \in 1..Len(items) |->
                   [source |-> "root", target |-> items[k].id,
                    nodeType |-> IF items[k].nodeType = "info" THEN {"info"}
                                 ELSE {"step", "answer"}]]]_vars

\* A reprompt completion that removed nodes and put fresh children in place.
C4_Witness ==
  /\ Resolved("clarify")
  /\ last.dropped # {}
  /\ Len(SelMap.nodes) >= 4
  /\ Len(SelMap.edges) = Len(SelMap.nodes) - 1

\* C5: promptLoading is true in every state in which at least one generation
\* request has not yet resolved or rejected, also with two or more requests
\* in flight at once.
C5_LoadingWhileInFlight == inflight # <<>> => promptLoading

\* C6: a second expansion can be started while one is pending, and the later
\* completion wins: when a reprompt completes, the nodes that another
\* completion added to the session while the reprompt was in flight are
\* missing afterwards unless the reprompt's own response names them.
C6_LaterCompletionWins ==
  Resolved("clarify") =>
    \A items \in {FreshChildren(repromptRootWithClarifyLlm(last.text,
                    Or(Or(last.req.rootNode.title, last.req.rootNode.label), "Root"),
                    last.req.rootNode.content))} :
      \A p \in last.req.concurrent :
        p[1] = selectedId /\ p[2] \notin {"root"} \cup Ids(items)
          => ~HasNode(SelMap.nodes, p[2])

\* Two requests of one session were in flight together; the first completion
\* added nodes, and they are missing once the second has been merged.
C6_Witness ==
  /\ Resolved("clarify")
  /\ last.req.sid = selectedId
  /\ \E p \in last.req.concurrent : p[1] = selectedId /\ ~HasNode(SelMap.nodes, p[2])

\* C7: maps are independent per session: the completion of a request issued
\* while session A was selected changes the nodes and edges of session A
\* only, also when another session was created or selected in between.
C7_CompletionStaysInSession ==
  [][last'.act = "Resolve" =>
       \A sid \in DOMAIN maps' :
         sid # last'.req.sid => MapOf(maps', sid) = MapOf(maps, sid)]_vars

\* The state just after the init completion of a createRoot on an empty
\* session in mock mode, nothing else having changed a graph.
MockInitDone ==
  /\ Resolved("init")
  /\ last.req.mock
  /\ issued = 1 /\ edits = 0 /\ Len(sessions) = 1

\* C8 (as the code has it): in mock mode, createRoot("Travel") on an empty
\* session followed by the init completion yields a graph with exactly one
\* root titled "Get started", 3 step children, 1 answer child and 2 info
\* children, with ids root-step-1, root-step-2, root-step-3, root-ans-1,
\* root-clar-1, root-clar-2.
C8_MockInitGraph ==
  MockInitDone =>
    /\ [i \in 1..Len(SelMap.nodes) |->
          [id |-> SelMap.nodes[i].id, nodeType |-> SelMap.nodes[i].nodeType]]
       = << [id |-> "root", nodeType |-> "root"],
            [id |-> "root-step-1", nodeType |-> "step"],
            [id |-> "root-step-2", nodeType |-> "step"],
            [id |-> "root-step-3", nodeType |-> "step"],
            [id |-> "root-ans-1", nodeType |-> "answer"],
            [id |-> "root-clar-1", nodeType |-> "info"],
            [id |-> "root-clar-2", nodeType |-> "info"] >>
    /\ SelMap.nodes[1].title = "Get started"
    /\ {<<e.source, e.target, e.linkType>> : e \in Range(SelMap.edges)}
       = {<<"root", "root-step-1", "post">>, <<"root", "root-step-2", "post">>,
          <<"root", "root-step-3", "post">>, <<"root", "root-ans-1", "post">>,
          <<"root", "root-clar-1", "info">>, <<"root", "root-clar-2", "info">>}

C8_Witness == MockInitDone /\ Len(SelMap.nodes) > 1

\* C8 as stated: 2 step children, 1 answer child and 2 info children, with
\* ids root-step-1, root-step-2, root-ans-1, root-clar-1, root-clar-2.
C8_AsStated ==
  MockInitDone =>
    /\ Ids(SelMap.nodes) = {"root", "root-step-1", "root-step-2", "root-ans-1",
                            "root-clar-1", "root-clar-2"}
    /\ Len(NodesOfType(SelMap.nodes, "root")) = 1
    /\ FindNode(SelMap.nodes, "root").title = "Get started"
    /\ Len(NodesOfType(SelMap.nodes, "step")) = 2
    /\ Len(NodesOfType(SelMap.nodes, "answer")) = 1
    /\ Len(NodesOfType(SelMap.nodes, "info")) = 2

\* The request a submit issues, by the node's type, as C9 states it.
DispatchedAsStated(node, nodeType, req) ==
  /\ nodeType = "root" => req.purpose = "clarify" /\ req.question = Nil
  /\ nodeType = "info" => req.purpose = "clarify" /\ req.question = node.label
  /\ nodeType \in {"step", "pre"} => req.purpose = "answerPath" /\ req.nodeId = node.id
  /\ req.purpose \in {Nil, "clarify", "answerPath"}

\* C9 (as the code has it): a non-blank submit dispatches by the node's
\* nodeType as long as the selected session has a node with id root: root
\* issues a clarify request without clarifying question, info a clarify
\* request carrying the info node's label, step or pre an answerPath request
\* for that node; without a root node a submit issues no request; no other
\* purpose is ever issued by a submit, and the request is added to those in
\* flight.
C9_SubmitDispatch ==
  [][last'.act = "Submit" =>
       \A node \in {FindNode(SelMap.nodes, last'.nodeId)} :
         /\ IF HasNode(SelMap.nodes, "root")
            THEN /\ DispatchedAsStated(node, last'.nodeType, last'.req)
                 /\ last'.nodeType \in {"root", "info", "step", "pre"}
                      <=> last'.req # NoRequest
            ELSE last'.req = NoRequest
         /\ inflight' = IF last'.req # NoRequest THEN Append(inflight, last'.req)
                        ELSE inflight]_vars

\* A submit on an info node that issued a clarify request with its label.
C9_Witness ==
  /\ last.act = "Submit"
  /\ last.nodeType = "info"
  /\ last.req.purpose = "clarify"
  /\ last.req.question = FindNode(SelMap.nodes, last.nodeId).label
  /\ Len(inflight) >= 1

\* C9 as stated: the dispatch whatever the graph holds.
C9_AsStated ==
  [][last'.act = "Submit" =>
       DispatchedAsStated(FindNode(SelMap.nodes, last'.nodeId), last'.nodeType,
                          last'.req)]_vars

\* C10: a submit on a node whose nodeType is answer or default issues no
\* request, leaves promptLoading, the node set, the edge set and every other
\* node unchanged, and stores the submitted text in that node's details; an
\* answer node gains no children through a submit.
C10_SubmitStoresDetails ==
  [][(last'.act = "Submit" /\ last'.nodeType \in {"answer", "default"}) =>
       /\ last'.req = NoRequest
       /\ inflight' = inflight /\ timers' = timers /\ issued' = issued
       /\ promptLoading' = promptLoading
       /\ \A sid \in DOMAIN maps : sid # selectedId => maps'[sid] = maps[sid]
       /\ \A new \in {SelMapAfter} :
            /\ new.edges = SelMap.edges
            /\ Len(new.nodes) = Len(SelMap.nodes)
            /\ \A i \in 1..Len(new.nodes) :
                 IF SelMap.nodes[i].id = last'.nodeId
                 THEN \E value \in UserTexts :
                        new.nodes[i] = [SelMap.nodes[i] EXCEPT !.details = value,
                                                               !.inputValue = ""]
                 ELSE new.nodes[i] = SelMap.nodes[i]]_vars

\* A submit on an answer node of a graph with other nodes and edges.
C10_Witness ==
  /\ last.act = "Submit"
  /\ last.nodeType = "answer"
  /\ FindNode(SelMap.nodes, last.nodeId).details \in UserTexts
  /\ Len(SelMap.nodes) > 2
  /\ SelMap.edges # <<>>

\* The session has the node id with the given nodeType and an edge of the
\* given linkType from source to it.
HasChild(map, source, id, nodeType, linkType) ==
  /\ \E i \in 1..Len(map.nodes) : map.nodes[i].id = id /\ map.nodes[i].nodeType = nodeType
  /\ \E k \in 1..Len(map.edges) :
       /\ map.edges[k].source = source /\ map.edges[k].target = id
       /\ map.edges[k].linkType = linkType
\* Every parsed item whose id is not in old is in new as a child of source.
ChildrenAdded(old, new, source, res) ==
  /\ \A b \in Range(res.branches) :
       b.id \notin Ids(old.nodes) => HasChild(new, source, b.id, "step", "post")
  /\ \A a \in Range(res.answers) :
       a.id \notin Ids(old.nodes) => HasChild(new, source, a.id, "answer", "post")
  /\ \A c \in Range(res.clarifies) :
       c.id \notin Ids(old.nodes) => HasChild(new, source, c.id, "info", "info")

\* C11: when expandAnswerPath(n, input) completes successfully, in the graph
\* of the session n was expanded in, each parsed step and answer whose id is
\* not yet in the graph is a new step/answer node linked from n by a post
\* edge, each such clarify a new info node linked from n by an info edge,
\* and n's details are the submitted input; when the request fails, n's
\* details are not written.
C11_AnswerPathAddsChildren ==
  [][/\ ResolvedNext("answerPath") =>
          \A r \in {last'.req} :
            \A res \in {expandAnswerPathWithGemini(last'.text, r.nodeId)} :
              /\ ChildrenAdded(MapOf(maps, r.sid), MapOf(maps', r.sid), r.nodeId, res)
              /\ HasNode(MapOf(maps, r.sid).nodes, r.nodeId) =>
                   FindNode(MapOf(maps', r.sid).nodes, r.nodeId).details = r.userInput
     /\ (last'.act = "Reject" /\ last'.req.purpose = "answerPath") =>
          FindNode(MapOf(maps', last'.req.sid).nodes, last'.req.nodeId).details
            = FindNode(MapOf(maps, last'.req.sid).nodes, last'.req.nodeId).details]_vars

\* C12: createRoot(label) on a session without a root puts the root (id
\* root, nodeType root, title label) into the graph and selects it in the
\* same step, without a request yet; the init request is issued afterwards,
\* once; when it completes, in the session the root was created in, the
\* nodes and edges that were there are kept, the parsed children are added
\* and the root's title is the parsed title.
C12_CreateRootThenInit ==
  [][/\ (last'.act = "createRoot" /\ ~HasNode(SelMap.nodes, "root")) =>
          /\ \E label \in RootLabels :
               /\ FindNode(SelMapAfter.nodes, "root").title = label
               /\ FindNode(SelMapAfter.nodes, "root").nodeType = "root"
          /\ selectedNodeId' = "root"
          /\ inflight' = inflight /\ issued' = issued
          /\ Len(timers') = Len(timers) + 1
     /\ last'.act = "InitTimer" =>
          /\ Len(timers') = Len(timers) - 1
          /\ inflight' = Append(inflight, last'.req)
          /\ last'.req.purpose = "init"
     /\ ResolvedNext("init") =>
          \A old \in {MapOf(maps, last'.req.sid)} :
            \A new \in {MapOf(maps', last'.req.sid)} :
              \A res \in {initializeNodeWithGemini(last'.text, "root")} :
                /\ HasNode(old.nodes, "root") =>
                     /\ FindNode(new.nodes, "root").title = res.title
                     /\ ChildrenAdded(old, new, "root", res)
                /\ Len(new.nodes) >= Len(old.nodes)
                /\ IdsOf(SubSeq(new.nodes, 1, Len(old.nodes))) = IdsOf(old.nodes)
                /\ Len(new.edges) >= Len(old.edges)
                /\ SubSeq(new.edges, 1, Len(old.edges)) = old.edges]_vars

\* The ids a response names for the request that was completed.
ParsedIds(r, text) == Range(IdsOf(Items(ParseExpansion(text, r.nodeId))))

\* C13: additive expansion is idempotent with respect to ids: when
\* expandAnswerPath, expandSelectedNodeWithGemini or root init completes and
\* the parsed branch ids are all in a graph already, the completion adds no
\* node and no edge to that graph; so the same expansion of the same node
\* completing twice with the same response leaves the node-id set and the
\* edge set after the second completion as they were after the first.
C13_ExpansionIdempotent ==
  [][(last'.act = "Resolve" /\ last'.req.purpose \in {"init", "expand", "answerPath"}) =>
       \A ids \in {ParsedIds(last'.req, last'.text)} :
         \A sid \in DOMAIN maps :
           ids \subseteq Ids(maps[sid].nodes) =>
             /\ IdsOf(maps'[sid].nodes) = IdsOf(maps[sid].nodes)
             /\ maps'[sid].edges = maps[sid].edges]_vars

\* The second of two completions of the same expansion with the same
\* response: the ids it names were all there, children and edges included.
C13_Witness ==
  /\ last.act = "Resolve"
  /\ last.req.purpose \in {"expand", "answerPath"}
  /\ issued = 2
  /\ ParsedIds(last.req, last.text) # {}
  /\ \A id \in ParsedIds(last.req, last.text) : <<selectedId, id>> \in last.req.concurrent
  /\ Len(SelMap.nodes) = Cardinality(ParsedIds(last.req, last.text))
                          + Cardinality(Ids(SelMap.nodes) \ ParsedIds(last.req, last.text))
  /\ Len(SelMap.edges) = Cardinality(ParsedIds(last.req, last.text))

\* C19: when the generation call resolves with empty text or text without
\* any recognized tag, the completion is a success that adds zero nodes and
\* zero edges and clears promptLoading, and the only changes are the root
\* being retitled to a fallback string (init) or the submitted input being
\* written to the expanded node's details (answer path).
C19_DegenerateOutputNoOp ==
  [][(/\ last'.act = "Resolve"
      /\ last'.text \in {EmptyText, PlainText}
      /\ last'.req.purpose \in {"init", "answerPath"}) =>
       /\ promptLoading' = FALSE
       /\ Items(ParseExpansion(last'.text, last'.req.nodeId)) = <<>>
       /\ \A sid \in DOMAIN maps :
            \A old \in {maps[sid]} :
              \A new \in {maps'[sid]} :
                /\ new.edges = old.edges
                /\ Len(new.nodes) = Len(old.nodes)
                /\ \A i \in 1..Len(old.nodes) :
                     \/ new.nodes[i] = old.nodes[i]
                     \/ /\ last'.req.purpose = "init" /\ old.nodes[i].id = "root"
                        /\ \E t \in {"New Node", "Sorry, no idea."} :
                             new.nodes[i] = [old.nodes[i] EXCEPT !.label = t, !.title = t]
                     \/ /\ last'.req.purpose = "answerPath"
                        /\ old.nodes[i].id = last'.req.nodeId
                        /\ new.nodes[i] = [old.nodes[i] EXCEPT
                                             !.details = last'.req.userInput,
                                             !.inputValue = ""]]_vars

----------------------------------------------------------------------------
\* Properties of the helpers of lib/llm.ts (under SpecParser).

RECURSIVE KeepFirst(_)
\* The entries of s whose label s has not shown before, in the order of s.
KeepFirst(s) ==
  IF s = <<>> THEN <<>>
  ELSE <<Head(s)>> \o KeepFirst(SelectSeq(Tail(s), LAMBDA x : x.label # Head(s).label))
\* The elements of the text with the given tag and a non-blank body.
NonBlank(text, tag) == SelectSeq(text, LAMBDA e : e.tag = tag /\ Raw(e) # "")
LabelsOf(items) == [i \in 1..Len(items) |-> items[i].label]
NoRepeat(s) == \A i, j \in 1..Len(s) : s[i] = s[j] => i = j
\* The labels the step, answer and clarify elements of the parsed text carry.
SourceLabels(tag) ==
  LET m == NonBlank(last.text, tag)
  IN  [i \in 1..Len(m) |->
         [label |-> IF tag = "clarify" THEN Raw(m[i]) ELSE BranchLabel(m[i])]]
HelperDone == last.act # "generateText"
\* No non-blank <step> and at least one non-blank <answer>.
LegacyCase == NonBlank(last.text, "step") = <<>> /\ NonBlank(last.text, "answer") # <<>>

\* C14: the parsed step, answer and clarify lists each hold no label twice,
\* keep first-seen order and have at most 6 (step, answer) or 4 (clarify)
\* entries; duplicates are removed before the cap, so they consume no slot
\* and only a 7th (5th) distinct label is dropped.
C14_DedupThenCap ==
  HelperDone =>
    \A res \in {last.res} :
      /\ NoRepeat(LabelsOf(res.branches)) /\ Len(res.branches) <= 6
      /\ NoRepeat(LabelsOf(res.answers)) /\ Len(res.answers) <= 6
      /\ NoRepeat(LabelsOf(res.clarifies)) /\ Len(res.clarifies) <= 4
      /\ LabelsOf(res.branches) \in
           {LabelsOf(Take(KeepFirst(SourceLabels(tag)), 6)) : tag \in {"step", "answer"}}
      /\ LabelsOf(res.answers) \in
           {<<>>, LabelsOf(Take(KeepFirst(SourceLabels("answer")), 6))}
      /\ LabelsOf(res.clarifies) = LabelsOf(Take(KeepFirst(SourceLabels("clarify")), 4))

\* Eight non-blank steps with seven distinct labels, the first label twice:
\* six branches come back, the sixth carrying the sixth distinct label; five
\* distinct clarifies give four.
C14_Witness ==
  /\ last.act = "expandNodeWithGemini"
  /\ Len(SourceLabels("step")) = 8
  /\ SourceLabels("step")[1] = SourceLabels("step")[2]
  /\ Len(last.res.branches) = 6
  /\ last.res.branches[6].label = "step6"
  /\ Len(SourceLabels("clarify")) >= 5
  /\ Len(last.res.clarifies) = 4

\* The ids prefix-1, prefix-2, ... of the n entries of a parsed list.
Numbered(prefix, n) == [i \in 1..n |-> prefix \o "-" \o ToString(i)]

\* C15 (as the code has it): for node-id prefix p, the i-th step branch of an
\* expansion has id p-step-i, the i-th answer branch p-ans-i and the i-th
\* clarify branch p-clar-i, counted from 1 without gaps; step branches that
\* come from the legacy reinterpretation of <answer> have id p-gen-i.
C15_BranchIds ==
  HelperDone =>
    \A res \in {last.res} :
      /\ IdsOf(res.branches)
           = Numbered(last.nodeId \o (IF LegacyCase THEN "-gen" ELSE "-step"),
                      Len(res.branches))
      /\ IdsOf(res.answers) = Numbered(last.nodeId \o "-ans", Len(res.answers))
      /\ IdsOf(res.clarifies) = Numbered(last.nodeId \o "-clar", Len(res.clarifies))

\* A legacy text parsed for node root-step-1: two branches with gen ids, next
\* to numbered clarifies.
C15_Witness ==
  /\ last.act = "expandAnswerPathWithGemini"
  /\ LegacyCase
  /\ IdsOf(last.res.branches) = <<"root-step-1-gen-1", "root-step-1-gen-2">>
  /\ Len(last.res.clarifies) >= 2

\* C15 as stated: step ids p-step-i also in the legacy case.
C15_AsStated ==
  HelperDone =>
    /\ IdsOf(last.res.branches) = Numbered(last.nodeId \o "-step", Len(last.res.branches))
    /\ IdsOf(last.res.answers) = Numbered(last.nodeId \o "-ans", Len(last.res.answers))
    /\ IdsOf(last.res.clarifies) = Numbered(last.nodeId \o "-clar", Len(last.res.clarifies))

\* C17: with no non-blank <step> and at least one non-blank <answer>, the
\* result holds one step branch per distinct answer label, in order, at most
\* 6, and no answers; with at least one step, the answers come back as
\* answers and the branches are the steps.
C17_LegacyAnswersAsSteps ==
  HelperDone =>
    \A res \in {last.res} :
      /\ LegacyCase =>
           /\ LabelsOf(res.branches) = LabelsOf(Take(KeepFirst(SourceLabels("answer")), 6))
           /\ res.answers = <<>>
      /\ NonBlank(last.text, "step") # <<>> =>
           /\ LabelsOf(res.answers) = LabelsOf(Take(KeepFirst(SourceLabels("answer")), 6))
           /\ LabelsOf(res.branches) = LabelsOf(Take(KeepFirst(SourceLabels("step")), 6))

\* Three <answer> elements with two distinct labels and no <step>: two
\* branches, no answers.
C17_Witness ==
  /\ last.act = "initializeNodeWithGemini"
  /\ LegacyCase
  /\ Len(SourceLabels("answer")) = 3
  /\ LabelsOf(last.res.branches) = <<"Legacy A", "Legacy B">>
  /\ last.res.answers = <<>>

\* The title of a <root> element with a non-blank body: its <title>, else
\* its body without tags, and the literal Root when that is empty.
RootTitle(r) ==
  LET t == IF r.title # Nil THEN r.title ELSE Stripped(r)
  IN  IF t # "" THEN t ELSE "Root"
\* The non-blank lines of the text.
LinesOf(text) == SelectSeq(text, LAMBDA e : Outer(e) # "")

\* C18: the title root init computes is the parsed <root> title if the text
\* has a (non-blank) root; else the first step label; else the first answer
\* label; else the first non-blank line of the text; else the literal
\* New Node.  For a text with no root, one <step>T1</step> and no answer it
\* is T1.
C18_TitleCascade ==
  last.act = "initializeNodeWithGemini" =>
    \A text \in {last.text} :
      LET roots == SelectSeq(text, LAMBDA e : e.tag = "root")
          steps == NonBlank(text, "step")
          answers == NonBlank(text, "answer")
      IN  last.res.title =
            IF roots # <<>> /\ Raw(roots[1]) # "" THEN RootTitle(roots[1])
            ELSE IF steps # <<>> THEN SourceLabels("step")[1].label
            ELSE IF answers # <<>> THEN SourceLabels("answer")[1].label
            ELSE IF LinesOf(text) # <<>> THEN Outer(LinesOf(text)[1])
            ELSE "New Node"

\* Root init of the text <step>T1</step>: the title is T1.
C18_Witness ==
  /\ last.act = "initializeNodeWithGemini"
  /\ last.text = <<Plain("step", "T1")>>
  /\ last.res.title = "T1"

\* The label and content of a non-blank <step> or <answer> element, as the
\* code has them.
ElementLabel(e) ==
  IF e.title # Nil /\ e.title # "" THEN e.title
  ELSE IF e.title = Nil /\ Stripped(e) # "" THEN Stripped(e)
  ELSE Raw(e)
ElementContent(e) == IF e.content # Nil THEN e.content ELSE e.subtitle
\* The label as C20 states it.
StatedLabel(e) ==
  IF e.title # Nil THEN e.title
  ELSE IF e.content # Nil THEN e.content
  ELSE IF e.subtitle # Nil THEN e.subtitle
  ELSE e.rest
\* The parsed list a run of elements gives when label(e) is each one's label.
Expected(els, label(_)) ==
  LET items == [i \in 1..Len(els) |->
                  [label |-> label(els[i]), content |-> ElementContent(els[i])]]
  IN  Take(KeepFirst(items), 6)
LabelContent(items) ==
  [i \in 1..Len(items) |-> [label |-> items[i].label, content |-> items[i].content]]
\* The elements the branches and the answers of the result come from.
BranchSource == NonBlank(last.text, IF LegacyCase THEN "answer" ELSE "step")
AnswerSource == IF LegacyCase THEN <<>> ELSE NonBlank(last.text, "answer")

\* C20 (as the code has it): for a non-blank <step> or <answer> element the
\* label is the trimmed <title> body if a <title> is present and not empty;
\* without a <title>, the tag body with all inner tags stripped (the
\* <content> or <subtitle> body only when the body holds nothing else); and
\* the raw tag body when that is empty or the <title> is empty.  The content
\* field is the <content> body, or the <subtitle> body when there is no
\* <content>, however the label was obtained.
C20_LabelAndContent ==
  HelperDone =>
    /\ LabelContent(last.res.branches) = Expected(BranchSource, ElementLabel)
    /\ LabelContent(last.res.answers) = Expected(AnswerSource, ElementLabel)

\* A step without <title> whose body holds a <content> and more text: the
\* label is the stripped body, the content field the <content> body.
C20_Witness ==
  /\ last.act = "expandNodeWithGemini"
  /\ BranchSource = <<Sub("step", Nil, "Body", Nil, "tail")>>
  /\ LabelContent(last.res.branches) = <<[label |-> "Bodytail", content |-> "Body"]>>

\* C20 as stated: without <title> the label is the <content> (or <subtitle>)
\* body, else the stripped tag body.
C20_AsStated ==
  HelperDone =>
    /\ LabelContent(last.res.branches) = Expected(BranchSource, StatedLabel)
    /\ LabelContent(last.res.answers) = Expected(AnswerSource, StatedLabel)

----------------------------------------------------------------------------
\* Layout of the nodes a completion creates.

\* The position a completion lays its new nodes out around: the root captured
\* by a reprompt, the position captured by expandSelectedNodeWithGemini, and
\* for init and expandAnswerPath the position the source has in graph `old`
\* (250, 120 when it is not there).
Anchor(r, old) ==
  CASE r.purpose = "clarify" -> [x |-> r.rootNode.x, y |-> r.rootNode.y]
    [] r.purpose = "expand" -> [x |-> r.sx, y |-> r.sy]
    [] OTHER -> [x |-> FindNode(old.nodes, r.nodeId).x, y |-> FindNode(old.nodes, r.nodeId).y]
\* The nodes a completion of request r created, turning graph `old` into `new`.
NewNodes(r, old, new) ==
  IF r.purpose = "clarify" THEN Tail(new.nodes)
  ELSE SubSeq(new.nodes, Len(old.nodes) + 1, Len(new.nodes))
RowOf(nodes) == SelectSeq(nodes, LAMBDA n : n.nodeType \in {"step", "answer"})
\* The boxes of the assumed size 320 x 120 at the positions of a and b intersect.
BoxesIntersect(a, b) ==
  /\ a.x < b.x + 320 /\ b.x < a.x + 320
  /\ a.y < b.y + 120 /\ b.y < a.y + 120

\* C21: in one expansion anchored at (sx, sy) that creates k steps and m
\* answers, the new step and answer nodes form one row: all have
\* y = sy + 280, the steps come first, and the node in slot i (0-based, steps
\* then answers) has x = sx - 240 + 360 * i.
C21_RowLayout ==
  [][last'.act = "Resolve" =>
       \A a \in {Anchor(last'.req, SelMap)} :
         \A row \in {RowOf(NewNodes(last'.req, SelMap, SelMapAfter))} :
           \A i \in 1..Len(row) :
             /\ row[i].y = a.y + 280
             /\ row[i].x = a.x - 240 + 360 * (i - 1)
             /\ row[i].nodeType = "answer" =>
                  \A j \in i..Len(row) : row[j].nodeType = "answer"]_vars

\* An answer-path completion that put two steps and an answer below a node
\* that is not at the default position.
C21_Witness ==
  /\ Resolved("answerPath")
  /\ \E s \in Range(SelMap.nodes) :
       /\ s.id = last.req.nodeId
       /\ <<s.x, s.y>> # <<250, 120>>
       /\ \E st1, st2, an \in Range(SelMap.nodes) :
            /\ st1.id = s.id \o "-step-1" /\ st2.id = s.id \o "-step-2"
            /\ an.id = s.id \o "-ans-1"
            /\ st1.nodeType = "step" /\ st2.nodeType = "step" /\ an.nodeType = "answer"
            /\ st1.x = s.x - 240 /\ st2.x = s.x + 120 /\ an.x = s.x + 480
            /\ {st1.y, st2.y, an.y} = {s.y + 280}

\* C22: in one expansion that creates n clarifier nodes at (sx, sy),
\* clarifier i (0-based) is in the left column (x = sx - 400) iff
\* i < ceil(n/2) and otherwise in the right column (x = sx + 400), and its
\* y is sy + row * 100 - 50 with row its index within its column.
C22_ClarifierColumns ==
  [][last'.act = "Resolve" =>
       \A a \in {Anchor(last'.req, SelMap)} :
         \A cl \in {NodesOfType(NewNodes(last'.req, SelMap, SelMapAfter), "info")} :
           /\ \A i \in 1..Len(cl) :
                LET left == 2 * (i - 1) < Len(cl)
                    row == IF left THEN i - 1 ELSE i - 1 - (Len(cl) + 1) \div 2
                IN  /\ cl[i].x = IF left THEN a.x - 400 ELSE a.x + 400
                    /\ cl[i].y = a.y + row * 100 - 50
           /\ Cardinality({i \in 1..Len(cl) : cl[i].x = a.x - 400}) = (Len(cl) + 1) \div 2
           /\ Cardinality({i \in 1..Len(cl) : cl[i].x = a.x + 400}) = Len(cl) \div 2]_vars

\* A completion that created three clarifiers: two in the left column, one
\* above the other, and one in the right column.
C22_Witness ==
  /\ last.act = "Resolve"
  /\ \E c1, c2, c3 \in Range(NodesOfType(SelMap.nodes, "info")) :
       /\ c1.x = c2.x /\ c3.x = c1.x + 800
       /\ c2.y = c1.y + 100 /\ c3.y = c1.y
  /\ Len(NodesOfType(SelMap.nodes, "info")) = 3

PaddedRegion(src, nn) ==
  LET xs == {src.x} \cup {nn[i].x : i \in 1..Len(nn)}
      ys == {src.y} \cup {nn[i].y : i \in 1..Len(nn)}
  IN  [minX |-> Min(xs) - 48, maxX |-> Max(xs) + 320 + 48,
       minY |-> Min(ys) - 48, maxY |-> Max(ys) + 120 + 48]
\* The 320 x 120 box of node n intersects region r.
InRegion(n, r) ==
  /\ n.x < r.maxX /\ n.x + 320 > r.minX
  /\ n.y < r.maxY /\ n.y + 120 > r.minY

\* C24: when expandAnswerPath completes, every node that was in the graph,
\* other than the expanded node, whose 320 x 120 box intersects the padded
\* expansion region is moved so that its box no longer intersects the
\* region, on each axis away from the region's center (to the side of the
\* center its position was on); the expanded node is not moved.
C24_PushOutOfRegion ==
  [][ResolvedNext("answerPath") =>
       \A old \in {SelMap} : \A new \in {SelMapAfter} :
         \A r \in {PaddedRegion(Anchor(last'.req, old), NewNodes(last'.req, old, new))} :
           \A i \in 1..Len(old.nodes) :
             LET o == old.nodes[i]
                 n == new.nodes[i]
             IN  /\ o.id = last'.req.nodeId => n.x = o.x /\ n.y = o.y
                 /\ (o.id # last'.req.nodeId /\ InRegion(o, r)) =>
                      /\ ~InRegion(n, r)
                      /\ IF 2 * o.x < r.minX + r.maxX THEN n.x < o.x ELSE n.x > o.x
                      /\ IF 2 * o.y < r.minY + r.maxY THEN n.y < o.y
                         ELSE n.y > o.y]_vars

\* An answer-path completion after which another node of the graph sits at
\* the corner of the region around the expanded node and its new children:
\* it was inside the region and has been pushed out on both axes.
C24_Witness ==
  /\ Resolved("answerPath")
  /\ HasNode(SelMap.nodes, last.req.nodeId)
  /\ ParsedIds(last.req, last.text) # {}
  /\ \E r \in {PaddedRegion(FindNode(SelMap.nodes, last.req.nodeId),
                            SelectSeq(SelMap.nodes,
                                      LAMBDA n : n.id \in ParsedIds(last.req, last.text)))} :
       \E n \in Range(SelMap.nodes) :
         /\ n.id \notin ParsedIds(last.req, last.text) \cup {last.req.nodeId}
         /\ n.x + 320 = r.minX
         /\ n.y + 120 = r.minY

----------------------------------------------------------------------------
\* Edges and sessions.

\* The edges a step added to the session selected after it.
AddedEdges ==
  LET old == MapOf(maps, selectedId')
      new == SelMapAfter
  IN  IF ResolvedNext("clarify") THEN new.edges
      ELSE SubSeq(new.edges, Len(old.edges) + 1, Len(new.edges))
EdgeIdsWellFormed ==
  \A sid \in DOMAIN maps :
    LET es == maps[sid].edges
    IN  /\ \A i \in 1..Len(es) : es[i].id = "e-" \o es[i].source \o "-" \o es[i].target
        /\ \A i, j \in 1..Len(es) : es[i].id = es[j].id => i = j
LinkTypesAsCreated ==
  \A i \in 1..Len(AddedEdges) :
    LET e == AddedEdges[i]
    IN  CASE last'.act = "Resolve" ->
               /\ HasNode(SelMapAfter.nodes, e.target)
               /\ e.linkType = IF FindNode(SelMapAfter.nodes, e.target).nodeType = "info"
                               THEN "info" ELSE "post"
          [] last'.act = "addPreNode" -> e.linkType = "pre"
          [] last'.act = "addDemoNode" -> e.linkType = "post"
          [] last'.act = "addInfoNode" -> e.linkType = "info"
          [] OTHER -> FALSE

\* C25: in every graph the store's own actions produce, each edge's id is
\* "e-" + source + "-" + target and no two edges share an id; the edges a
\* completion adds are post edges to its step and answer nodes and info edges
\* to its clarifier nodes, and addPreNode adds a pre edge.
C25_EdgeIds == []EdgeIdsWellFormed /\ [][LinkTypesAsCreated]_vars

\* C28: createSession produces a session whose id differs from the id of
\* every existing session, whatever Date.now() returns; the new session is
\* selected with an empty graph and no node selected, and the graphs of the
\* existing sessions are unchanged.
C28_FreshSession ==
  [][last'.act = "createSession" =>
       /\ Len(sessions') = Len(sessions) + 1
       /\ \A i \in 1..Len(sessions) : sessions[i].id # sessions'[1].id
       /\ selectedId' = sessions'[1].id
       /\ SelMapAfter = EmptyMap
       /\ selectedNodeId' = Nil
       /\ \A i \in 1..Len(sessions) :
            MapOf(maps', sessions[i].id) = MapOf(maps, sessions[i].id)]_vars

\* C29: createRoot(label) on a session that has a root sets the root's
\* label and title to label and its nodeType to root and selects the root;
\* no node or edge is added or removed, no node moves, no request is issued
\* or scheduled and promptLoading is unchanged.
C29_CreateRootRenames ==
  [][(last'.act = "createRoot" /\ HasNode(SelMap.nodes, "root")) =>
       /\ \E label \in RootLabels :
            SelMapAfter.nodes =
              [i \in 1..Len(SelMap.nodes) |->
                 IF SelMap.nodes[i].id = "root"
                 THEN [SelMap.nodes[i] EXCEPT !.label = label, !.title = label,
                                              !.nodeType = "root"]
                 ELSE SelMap.nodes[i]]
       /\ SelMapAfter.edges = SelMap.edges
       /\ \A sid \in DOMAIN maps : sid # selectedId => maps'[sid] = maps[sid]
       /\ DOMAIN maps' = DOMAIN maps
       /\ selectedNodeId' = "root"
       /\ selectedId' = selectedId
       /\ timers' = timers /\ inflight' = inflight /\ issued' = issued
       /\ promptLoading' = promptLoading]_vars

\* createRoot has renamed a root that was created without a nodeType and
\* has a child, while a request is in flight and promptLoading is set.
C29_Witness ==
  /\ last.act = "createRoot"
  /\ timers = <<>>
  /\ Len(SelMap.nodes) >= 2 /\ Len(SelMap.edges) >= 1
  /\ \E label \in RootLabels : FindNode(SelMap.nodes, "root").title = label
  /\ selectedNodeId = "root"
  /\ inflight # <<>> /\ promptLoading

\* C30: in every reachable state and every session, the source and the
\* target of each edge are ids of nodes of that session's graph, under any
\* interleaving of createRoot, the add-node actions, expansions, reprompts,
\* session creation and selection and the completions.
C30_NoDanglingEdges ==
  \A sid \in DOMAIN maps :
    \A i \in 1..Len(maps[sid].edges) :
      /\ maps[sid].edges[i].source \in Ids(maps[sid].nodes)
      /\ maps[sid].edges[i].target \in Ids(maps[sid].nodes)

----------------------------------------------------------------------------
\* The generation client and the backend route.

\* The title of the first element of the canned text for promptType pt.
MockFirstTitle(pt) ==
  CASE pt = "init" -> "Get started"
    [] pt = "clarify" -> "Refined topic"
    [] pt = "answerPath" -> "Next step A"
    [] OTHER -> "Branch A"
MockSettles ==
  (last.act = "generateText" /\ useMockLlm) =>
    /\ last'.act = "settled"
    /\ ~last'.contacted
    /\ last'.result.how = "resolved"
    /\ last'.result.text # <<>>
    /\ last'.result.text[1].title = MockFirstTitle(last.req.promptType)
    /\ last'.result.text =
         getMockResponse(IF last.req.promptType \in {"init", "clarify", "answerPath"}
                         THEN last.req.promptType ELSE "expand")
LiveResolves ==
  (~useMockLlm /\ last'.act = "settled" /\ last'.result.how = "resolved") =>
    /\ last.act = "POST"
    /\ last.response.status \in 200..299
    /\ last'.result.text = last.response.text
NotOkRejects ==
  (~useMockLlm /\ last.act = "POST" /\ last'.act = "settled"
   /\ last'.response # NoResponse /\ last.response.status \notin 200..299) =>
    last'.result.how = "rejected"

\* C26 (as the code has it): in mock mode generateText never contacts the
\* backend and resolves with the canned text for the request's promptType
\* (the expand text for an unknown or missing one); in live mode it rejects
\* when the backend answers with a non-success status and when the request
\* gets no answer at all (fetch rejects), and otherwise resolves with the
\* backend's response.
C26_GenerateText ==
  [][/\ MockSettles
     /\ LiveResolves
     /\ NotOkRejects
     /\ (last'.act = "settled" /\ last'.result.how = "rejected") =>
          /\ ~useMockLlm
          /\ \/ last'.response = NoResponse
             \/ last'.response.status \notin 200..299]_vars

\* Live mode: the backend answered 400 and generateText rejected.
C26_Witness ==
  /\ ~useMockLlm
  /\ last.act = "settled"
  /\ last.response.status = 400
  /\ last.result = Settled("rejected", <<>>, "LLM error: 400")

\* C26 as stated: in live mode generateText rejects if and only if the
\* backend answers with a non-success status.
C26_AsStated ==
  [][/\ MockSettles
     /\ LiveResolves
     /\ NotOkRejects
     /\ (last'.act = "settled" /\ last'.result.how = "rejected") =>
          /\ ~useMockLlm
          /\ last'.response # NoResponse
          /\ last'.response.status \notin 200..299]_vars

\* The title of the first element of the handler's boilerplate text.
FallbackFirstTitle(pt) ==
  CASE pt = "init" -> "Get started"
    [] pt = "expand" -> "Option A"
    [] pt = "answerPath" -> "Next step A"
    [] pt = "clarify" -> "Refined topic"
    [] OTHER -> "Option 1"
\* What the claim says of a response: 200, a text that is not blank, the
\* model's text when it gave one and the boilerplate for the promptType when
\* the model call failed or gave a blank text.
AnswersWithText ==
  /\ last'.response.status = 200
  /\ ~TextBlank(last'.response.text)
  /\ IF last'.outcome.kind = "text" /\ ~TextBlank(last'.outcome.text)
     THEN last'.response.text = last'.outcome.text
     ELSE /\ last'.response.text[1].title = FallbackFirstTitle(last.req.promptType)
          /\ \E i \in 1..Len(last'.response.text) : last'.response.text[i].tag = "clarify"
\* The payload gives the handler something to send to the model.
HasContent(req) ==
  IF Len(req.messages) > 0
  THEN \E i \in 1..Len(req.messages) :
         req.messages[i].role \in {"user", "assistant"} /\ req.messages[i].content # ""
  ELSE req.prompt \notin {Nil, ""}

----------------------------------------------------------------------------
\* Loading flag, push pass, concurrent completions.

\* C31: promptLoading is never true with no request in flight; so in every
\* behaviour in which every issued request resolves or rejects and no
\* further request is issued (from some point on nothing is in flight or
\* scheduled), promptLoading eventually is false and stays false.
C31_LoadingSettles ==
  /\ [](inflight = <<>> => ~promptLoading)
  /\ (<>[](inflight = <<>> /\ timers = <<>>) => <>[](~promptLoading))

\* The last of two requests has rejected: nothing is in flight or scheduled
\* and promptLoading is false.
C31_Witness ==
  /\ last.act = "Reject"
  /\ issued = MaxRequests
  /\ inflight = <<>> /\ timers = <<>>
  /\ ~promptLoading

\* C32: the overlap-avoidance pass of expandAnswerPath moves only nodes that
\* intersect the expansion region: a node that was in the graph and whose
\* 320 x 120 box does not intersect the padded region (it is outside on the
\* x axis or outside on the y axis) keeps its position.
C32_OnlyIntersectingMoved ==
  [][ResolvedNext("answerPath") =>
       \A old \in {SelMap} : \A new \in {SelMapAfter} :
         \A r \in {PaddedRegion(Anchor(last'.req, old), NewNodes(last'.req, old, new))} :
           \A i \in 1..Len(old.nodes) :
             ~InRegion(old.nodes[i], r) =>
               /\ new.nodes[i].x = old.nodes[i].x
               /\ new.nodes[i].y = old.nodes[i].y]_vars

Additive(r) == r.purpose \in {"init", "expand", "answerPath"}
EdgePairs(edges) == {<<edges[i].source, edges[i].target>> : i \in 1..Len(edges)}

\* C33: additive expansions in flight at the same time in one session do
\* not lose each other's additions.  Each completion in that session keeps
\* every node and every edge that is in the graph, the other's additions
\* among them, and adds the parsed ids that are missing with their edges; two
\* expansions can name the same id only for the same source node.  So after
\* both completions the node ids and the edges are the union of what was
\* there and what each adds, in either order.
C33_ConcurrentAdditions ==
  [][(last'.act = "Resolve" /\ Additive(last'.req) /\ last'.req.sid = selectedId) =>
       \A old \in {SelMap} : \A new \in {SelMapAfter} :
         \A ids \in {ParsedIds(last'.req, last'.text)} :
           /\ Ids(new.nodes) = Ids(old.nodes) \cup ids
           /\ Len(new.edges) >= Len(old.edges)
           /\ SubSeq(new.edges, 1, Len(old.edges)) = old.edges
           /\ EdgePairs(new.edges) =
                EdgePairs(old.edges)
                \cup {<<last'.req.nodeId, id>> : id \in ids \ Ids(old.nodes)}
           /\ \A k \in 1..Len(inflight') :
                LET q == inflight'[k]
                IN  (Additive(q) /\ q.sid = selectedId /\ q.nodeId # last'.req.nodeId) =>
                      \A text \in ResponseTexts(q) : ParsedIds(q, text) \cap ids = {}]_vars

\* The second of two expansions of different nodes that were in flight
\* together in one session has completed: the children the first one added
\* while it was in flight and its own children are in the graph, each with
\* its edge.
C33_Witness ==
  /\ last.act = "Resolve" /\ Additive(last.req) /\ last.req.sid = selectedId
  /\ inflight = <<>>
  /\ ParsedIds(last.req, last.text) # {}
  /\ \E id \in Ids(SelMap.nodes) :
       /\ <<selectedId, id>> \in last.req.concurrent
       /\ id \notin ParsedIds(last.req, last.text)
       /\ \E e \in Range(SelMap.edges) : e.target = id /\ e.source # last.req.nodeId
  /\ \A id \in ParsedIds(last.req, last.text) :
       /\ id \in Ids(SelMap.nodes)
       /\ <<last.req.nodeId, id>> \in EdgePairs(SelMap.edges)

\* C34: a root reprompt that completes in the session it was issued in, the
\* root still being there, updates the root in place: the root keeps the
\* position, the details and the inputValue it has in the store when the
\* completion runs, so a drag or an updateNodeData made while the request was
\* in flight is not reverted.
C34_RootUpdatedInPlace ==
  [][(ResolvedNext("clarify") /\ last'.req.sid = selectedId /\ HasNode(SelMap.nodes, "root")) =>
       \A old \in {FindNode(SelMap.nodes, "root")} :
         \A new \in {FindNode(SelMapAfter.nodes, "root")} :
           /\ new.x = old.x /\ new.y = old.y
           /\ new.details = old.details
           /\ new.inputValue = old.inputValue]_vars

\* C35: in every reachable state selectedNodeId is null or the id of a node
\* in the graph of the selected session.
C35_SelectionInGraph ==
  selectedNodeId = Nil \/ HasNode(SelMap.nodes, selectedNodeId)

\* The children of node n in a graph: the targets of the edges from n.
ChildrenOf(map, n) ==
  {map.nodes[i] : i \in {j \in 1..Len(map.nodes) :
                           <<n, map.nodes[j].id>> \in EdgePairs(map.edges)}}

\* C37: with no node dragged, a child that an additive expansion of node n
\* adds is never placed at exactly the position of a child of n that is
\* already in the graph.
C37_NoChildOnChild ==
  [][(last'.act = "Resolve" /\ Additive(last'.req) /\ last'.req.sid = selectedId) =>
       \A old \in {SelMap} : \A new \in {SelMapAfter} :
         \A i \in 1..Len(new.nodes) :
           new.nodes[i].id \notin Ids(old.nodes) =>
             \A o \in ChildrenOf(new, last'.req.nodeId) :
               (o.id \in Ids(old.nodes) /\ <<last'.req.nodeId, o.id>> \in EdgePairs(old.edges)) =>
                 <<new.nodes[i].x, new.nodes[i].y>> # <<o.x, o.y>>]_vars

----------------------------------------------------------------------------
\* Expansions with a backend that may also answer with more elements of each
\* category than the parser keeps.

OverCapText ==
  NumberedEls("step", MaxBranches + 1) \o NumberedEls("answer", MaxBranches + 1)
  \o NumberedPlain("clarify", MaxClarifies + 1)
LongTexts(r) == IF r.mock THEN ResponseTexts(r) ELSE ResponseTexts(r) \cup {OverCapText}

\* The completion handlers, as in Resolve, over LongTexts.
ResolveLong ==
  \E i \in 1..Len(inflight) :
    LET r == inflight[i]
    IN  /\ MockBusy => r.mock
        /\ selectedId # Nil
        /\ \E text \in LongTexts(r) :
             \E newMap \in {ResolveMap(r, text, SelMap)} :
               /\ maps' = SetMap(maps, selectedId, newMap)
               /\ inflight' = Remaining(i, selectedId, Ids(newMap.nodes) \ Ids(SelMap.nodes))
               /\ last' = [Step("Resolve", r, text, r.nodeId, Nil) EXCEPT
                             !.dropped = Ids(SelMap.nodes) \ Ids(newMap.nodes)]
        /\ selectedNodeId' = ResolveSelection(r, selectedNodeId)
        /\ promptLoading' = DoneLoading(promptLoading)
        /\ UNCHANGED <<now, sessions, selectedId, useMockLlm, timers, issued, edits>>

NextLongTexts ==
  \/ selectSession
  \/ setSelectedNodeId
  \/ createRoot
  \/ InitTimer
  \/ expandSelectedNodeWithGemini
  \/ Submit
  \/ ResolveLong
  \/ Reject

SpecLongTexts == Init /\ [][NextLongTexts]_vars

AddedNodes(old, new) == SubSeq(new.nodes, Len(old.nodes) + 1, Len(new.nodes))
AddedEdgeList(old, new) == SubSeq(new.edges, Len(old.edges) + 1, Len(new.edges))

\* C38: every additive expansion of node n that completes appends as many
\* edges as nodes, at most 16 of each; each added node is the target of
\* exactly one added edge, whose source is n, and no added edge targets a
\* node that was in the graph before.
C38_EdgePerAddedNode ==
  [][(last'.act = "Resolve" /\ Additive(last'.req)) =>
       \A old \in {SelMap} : \A new \in {SelMapAfter} :
         /\ Len(new.nodes) >= Len(old.nodes) /\ Len(new.edges) >= Len(old.edges)
         /\ Ids(SubSeq(new.nodes, 1, Len(old.nodes))) = Ids(old.nodes)
         /\ SubSeq(new.edges, 1, Len(old.edges)) = old.edges
         /\ \A an \in {AddedNodes(old, new)} : \A ae \in {AddedEdgeList(old, new)} :
              /\ Len(an) = Len(ae)
              /\ Len(an) <= 2 * MaxBranches + MaxClarifies
              /\ \A i \in 1..Len(an) :
                   /\ Cardinality({k \in 1..Len(ae) : ae[k].target = an[i].id}) = 1
                   /\ \A k \in 1..Len(ae) :
                        ae[k].target = an[i].id => ae[k].source = last'.req.nodeId
              /\ \A k \in 1..Len(ae) :
                   /\ ae[k].target \notin Ids(old.nodes)
                   /\ ae[k].target \in Ids(an)]_vars

\* An expansion has completed with the over-long text and has added the
\* full sixteen nodes, each with its edge from the source.
C38_Witness ==
  /\ last.act = "Resolve" /\ Additive(last.req)
  /\ last.text = OverCapText
  /\ Cardinality(ParsedIds(last.req, last.text)) = 2 * MaxBranches + MaxClarifies
  /\ \A id \in ParsedIds(last.req, last.text) :
       /\ HasNode(SelMap.nodes, id)
       /\ <<last.req.nodeId, id>> \in EdgePairs(SelMap.edges)
  /\ Len(SelMap.edges) = 2 * MaxBranches + MaxClarifies

----------------------------------------------------------------------------
\* The store actions called directly, with any node id, as the store's
\* interface allows.

\* node ids a caller may pass whatever the graph holds: the root's, which
\* StarterField passes, and one that no graph holds
UnknownIds == {"root", "ghost"}
NodeTypes == {"info"}

\* Variant of updateNodeType: the node is patched in every session.
updateNodeTypeEverywhere(m, nodeId, nodeType) ==
  [sid \in DOMAIN m |->
     [m[sid] EXCEPT !.nodes =
        [i \in 1..Len(m[sid].nodes) |->
           IF m[sid].nodes[i].id = nodeId
           THEN [m[sid].nodes[i] EXCEPT !.nodeType = nodeType]
           ELSE m[sid].nodes[i]]]]
\* updateNodeType(nodeId, nodeType)
updateNodeType(m, nodeId, nodeType) ==
  IF selectedId = Nil THEN m
  ELSE LET map == MapOf(m, selectedId)
           nodes == [i \in 1..Len(map.nodes) |->
                       IF map.nodes[i].id = nodeId
                       THEN [map.nodes[i] EXCEPT !.nodeType = nodeType]
                       ELSE map.nodes[i]]
       IN  SetMap(m, selectedId, [map EXCEPT !.nodes = nodes])

\* updateNodeData called with any id; a call that matches a node is a direct
\* edit of the graph.
UpdateNodeData ==
  \E nodeId \in Ids(SelMap.nodes) \cup UnknownIds, details \in {Nil} \cup UserTexts :
    /\ ~MockBusy
    /\ HasNode(SelMap.nodes, nodeId) => MayEdit
    /\ maps' = updateNodeData(maps, nodeId, details)
    /\ edits' = IF HasNode(SelMap.nodes, nodeId) THEN edits + 1 ELSE edits
    /\ last' = Step("updateNodeData", NoRequest, <<>>, nodeId, Nil)
    /\ UNCHANGED <<now, sessions, selectedId, selectedNodeId, promptLoading, useMockLlm,
                   timers, inflight, issued>>

UpdateNodeType ==
  \E nodeId \in Ids(SelMap.nodes) \cup UnknownIds, nodeType \in NodeTypes :
    /\ ~MockBusy
    /\ HasNode(SelMap.nodes, nodeId) => MayEdit
    /\ maps' = updateNodeType(maps, nodeId, nodeType)
    /\ edits' = IF HasNode(SelMap.nodes, nodeId) THEN edits + 1 ELSE edits
    /\ last' = Step("updateNodeType", NoRequest, <<>>, nodeId, nodeType)
    /\ UNCHANGED <<now, sessions, selectedId, selectedNodeId, promptLoading, useMockLlm,
                   timers, inflight, issued>>

\* repromptRootWithClarify(userAnswer) up to the request.
repromptRootWithClarify ==
  \E userAnswer \in UserTexts :
    LET req == RepromptRequest(Nil, userAnswer)
    IN  /\ ~MockBusy
        /\ req # NoRequest => MayRequest
        /\ inflight' = IF req # NoRequest THEN Append(inflight, req) ELSE inflight
        /\ issued' = IF req # NoRequest THEN issued + 1 ELSE issued
        /\ promptLoading' = IF req # NoRequest THEN TRUE ELSE promptLoading
        /\ last' = Step("repromptRootWithClarify", req, <<>>, "root", Nil)
        /\ UNCHANGED <<now, sessions, selectedId, maps, selectedNodeId, useMockLlm, timers,
                       edits>>

\* expandAnswerPath(nodeId, userInput) up to the request.
expandAnswerPath ==
  \E nodeId \in Ids(SelMap.nodes) \cup UnknownIds, userInput \in UserTexts :
    LET req == AnswerPathRequest(nodeId, userInput)
    IN  /\ ~MockBusy
        /\ req # NoRequest => (MayRequest /\ Len(nodeId) <= MaxIdLen)
        /\ inflight' = IF req # NoRequest THEN Append(inflight, req) ELSE inflight
        /\ issued' = IF req # NoRequest THEN issued + 1 ELSE issued
        /\ promptLoading' = IF req # NoRequest THEN TRUE ELSE promptLoading
        /\ last' = Step("expandAnswerPath", req, <<>>, nodeId, Nil)
        /\ UNCHANGED <<now, sessions, selectedId, maps, selectedNodeId, useMockLlm, timers,
                       edits>>

\* The two request actions called directly, over graphs built by createRoot,
\* addDemoNode and the canvas.
NextCalls ==
  \/ createSession
  \/ setSelectedNodeId
  \/ createRoot
  \/ addDemoNode
  \/ setNodes
  \/ InitTimer
  \/ repromptRootWithClarify
  \/ expandAnswerPath
  \/ Resolve
  \/ Reject

SpecCalls == Init /\ [][NextCalls]_vars

\* The synchronous actions that write a graph, with the session list and
\* the init request that createRoot schedules.
NextSyncActions ==
  \/ createSession
  \/ selectSession
  \/ setSelectedNodeId
  \/ createRoot
  \/ addDemoNode
  \/ addPreNode
  \/ addInfoNode
  \/ setNodes
  \/ setEdges
  \/ UpdateNodeData
  \/ UpdateNodeType
  \/ InitTimer
  \/ Resolve
  \/ Reject

SpecSyncActions == Init /\ [][NextSyncActions]_vars

\* The store state but for the history variable.
store == <<now, sessions, selectedId, maps, selectedNodeId, promptLoading, useMockLlm,
           timers, inflight, issued, edits>>

\* C36: repromptRootWithClarify on a session without a root node, and
\* expandAnswerPath with a node id that is not in the selected session's
\* graph or on a session without a root, are no-ops: no request is issued,
\* promptLoading is not set and the whole store state is unchanged.
C36_GuardedCallsNoOp ==
  [][(\/ /\ last'.act = "repromptRootWithClarify"
         /\ ~HasNode(SelMap.nodes, "root")
      \/ /\ last'.act = "expandAnswerPath"
         /\ (~HasNode(SelMap.nodes, last'.nodeId) \/ ~HasNode(SelMap.nodes, "root")))
     => /\ last'.req = NoRequest
        /\ promptLoading' = promptLoading
        /\ inflight' = inflight /\ issued' = issued
        /\ store' = store]_vars

\* expandAnswerPath has just been called with an unknown id on a graph that
\* has a root and other nodes, with nothing in flight: nothing was issued.
C36_Witness ==
  /\ last.act = "expandAnswerPath"
  /\ last.nodeId = "ghost"
  /\ HasNode(SelMap.nodes, "root") /\ Len(SelMap.nodes) > 1
  /\ last.req = NoRequest
  /\ inflight = <<>> /\ issued = 0 /\ ~promptLoading

SyncActs ==
  {"updateNodeData", "updateNodeType", "setNodes", "setEdges", "createRoot", "addDemoNode",
   "addPreNode", "addInfoNode"}

\* C39: updateNodeData, updateNodeType, setNodes, setEdges, createRoot,
\* addDemoNode, addPreNode and addInfoNode change only the map of the selected
\* session: the nodes and edges of every other session are the same before
\* and after the call, and updateNodeData / updateNodeType with an id that
\* matches no node of the selected session change no node at all.
C39_OnlySelectedMap ==
  [][last'.act \in SyncActs =>
       /\ selectedId' = selectedId /\ sessions' = sessions
       /\ DOMAIN maps' = DOMAIN maps \cup {selectedId}
       /\ \A sid \in DOMAIN maps : sid # selectedId => maps'[sid] = maps[sid]
       /\ (/\ last'.act \in {"updateNodeData", "updateNodeType"}
           /\ ~HasNode(SelMap.nodes, last'.nodeId)) => maps' = maps]_vars

\* updateNodeType has just been called with an id that matches no node,
\* with two sessions that both hold nodes: both graphs are as the add-node
\* actions built them.
C39_Witness ==
  /\ last.act = "updateNodeType" /\ last.nodeId = "ghost"
  /\ Len(sessions) = 2 /\ Cardinality(DOMAIN maps) = 2
  /\ \A sid \in DOMAIN maps :
       /\ HasNode(maps[sid].nodes, "root") /\ Len(maps[sid].nodes) = 2
       /\ \A i \in 1..Len(maps[sid].nodes) : maps[sid].nodes[i].nodeType # "info"
====
